---- MODULE Spec2Model ----
\* Gateway supervisor, readiness wait and web-terminal session bridge of the
\* OpenClaw Railway template (src/src/server.js; src/unnamed/part_000 is the
\* second copy of the server, whose startGateway differs).
EXTENDS Integers, Naturals, FiniteSets, Sequences, TLC

\* ---------------------------------------------------------------------------
\* Bounds
\* ---------------------------------------------------------------------------
NumCallers == 2
MaxProcs == 2
MaxSessions == 3
MaxFairSessions == 2
MaxMsgs == 2
MaxInFlight == 2
MaxOver == 2

\* ---------------------------------------------------------------------------
\* Program constants (ms)
\* ---------------------------------------------------------------------------
GATEWAY_READY_TIMEOUT == 60000
GATEWAY_POLL_INTERVAL == 500
HEALTH_TIMEOUT == 2000
TUI_IDLE_TIMEOUT_MS == 300000
TUI_MAX_SESSION_MS == 1800000
CHECK_INTERVAL == 10000
RATE_LIMIT_WINDOW == 60000
RATE_LIMIT_MAX == 50
\* resolution of the clock
TimeStep == GATEWAY_POLL_INTERVAL \div 2
HealthyCap == GATEWAY_POLL_INTERVAL + 2 * HEALTH_TIMEOUT + 2 * TimeStep
\* resolution of the clock of the session bridge
TuiTimeStep == CHECK_INTERVAL \div 2
\* Date.now() at a periodic check: early, past the idle threshold, past the maximum duration
CheckTimes == {CHECK_INTERVAL, TUI_IDLE_TIMEOUT_MS + CHECK_INTERVAL,
               TUI_MAX_SESSION_MS + CHECK_INTERVAL}

Callers == 1..NumCallers
Procs == 1..MaxProcs
Sessions == 1..MaxSessions

\* the two copies of the server source
ServerJs == "server.js"
Part000 == "part_000"

VARIABLES
  gatewayProc,      \* process handle: 0 = null, else the spawned process
  gatewayStarting,  \* start-future slot: 0 = null, else the attempt (named by its process)
  configured,       \* isConfigured(): the config file exists
  procState,        \* per process: "none" | "alive" | "spawnerr" | "failed" | "exited"
  procSignalled,    \* per process: SIGTERM has been sent to it
  attempt,          \* per attempt: "none" | "waiting" | "cfgMode" | "cfgToken" | "resolved" | "rejected"
  spawnedBy,        \* per process: the caller whose startGateway spawned it (0 = none)
  call,             \* per caller: the supervisor call it is executing (IdleCall when none)
  done,             \* the startGateway calls that completed in the latest completing turn
  spawnEarly,       \* per process: spawned by a call made with no handle before any start call completed
  startDone,        \* some startGateway call has completed
  pred,             \* per process: the process signalled by the stop that preceded its spawn in a restart
  now,              \* Date.now(), in ms since the server started
  wait,             \* the waitForGatewayReady() loop of the attempt in flight
  healthy,          \* the gateway answers GET /health with 200
  healthyFor,       \* ms since it began to (capped at HealthyCap)
  everHealthy,      \* it has answered 200 at some time since the spawn
  settledAt,        \* Date.now() when the timed attempt settled
  tuiSession,       \* the session slot: 0 = null, else the session it holds
  wsState,          \* per session, its WebSocket: "none" | "open" | "closing" | "closed"
  ptyState,         \* per session, its pty process: "none" | "alive" | "killed" | "exited"
  idleChecker,      \* per session: its interval timer is set
  closeReason,      \* per session: why the server closed its WebSocket ("none" if it did not)
  sessionStart,     \* per session: Date.now() at admission
  lastActivity,     \* per session: Date.now() at the latest message or output
  lastEvent,        \* per session: the time of its latest message or output chunk
  nextCheck,        \* per session: when its interval timer fires next
  closeCalls,       \* per session: the reasons of the ws.close() calls of its latest due check
  phase,            \* the server process: "running" | "shutdown" | "exited"
  lastUpgrade,      \* the latest terminal upgrade: its result and what it found
  received,         \* per session: the messages its WebSocket received, in receipt order
  ptyWritten,       \* per session: the data written to its pty, in order
  chunks,           \* per session: the output chunks of its pty, each with the socket's state then
  wsSent,           \* per session: the output messages sent on its WebSocket, in order
  exitSent,         \* per session: how many exit messages were sent on its WebSocket
  req,              \* per caller: the request whose catch-all handler awaits ensureGatewayRunning()
  proxied,          \* the requests handed to proxy.web() and not yet answered
  answered,         \* the requests answered in the latest turn of the router
  lastWs,           \* the latest WebSocket upgrade outside the terminal path
  SETUP_PASSWORD,   \* process.env.SETUP_PASSWORD?.trim(), as characters (<<>> when not set)
  ENABLE_WEB_TUI,   \* process.env.ENABLE_WEB_TUI is not "false"
  rateLimitMap,     \* per client identity: its record (NoRecord when the map has none)
  lastAuth,         \* the latest request that entered requireSetupAuth: identity and answer
  passed,           \* per identity: the requests let through since its record's reset time was set
  lastHealth,       \* the latest checkGatewayHealth() call: the events of its request, its value
  lastReport        \* the latest answer of the health route

supVars == <<gatewayProc, gatewayStarting, configured, procState, procSignalled, attempt, spawnedBy>>
histVars == <<done, spawnEarly, startDone, pred>>
routerVars == <<req, proxied, answered, lastWs>>
envVars == <<SETUP_PASSWORD, ENABLE_WEB_TUI>>
authVars == <<envVars, rateLimitMap, lastAuth, passed, lastHealth, lastReport>>
waitVars == <<wait, healthy, healthyFor, everHealthy, settledAt>>
timeVars == <<now, waitVars>>
dataVars == <<received, ptyWritten, chunks, wsSent, exitSent>>
tuiVars == <<tuiSession, wsState, ptyState, idleChecker, closeReason, sessionStart,
             lastActivity, lastEvent, nextCheck, closeCalls, phase, lastUpgrade, dataVars>>
gatewayVars == <<supVars, call, histVars, waitVars, routerVars, authVars>>
otherVars == <<timeVars, tuiVars, routerVars, authVars>>
vars == <<supVars, call, histVars, timeVars, tuiVars, routerVars, authVars>>

\* pc: "idle" | "stopSleep" | "awaitStart" | "doctor" | "modeSet" | "readBody" | "extract"
\* op: the operation called; awaiting: the attempt whose promise is awaited;
\* joined: the attempt in flight when startGateway was entered;
\* early: startGateway entered with no handle before any start call completed;
\* stopSig: the process signalled by this call's stopGateway
IdleCall == [pc |-> "idle", op |-> "none", awaiting |-> 0, joined |-> 0,
             early |-> FALSE, stopSig |-> 0]

Alive(p) == procState[p] = "alive"
LiveProcs == {p \in Procs : Alive(p)}
Spawned == {p \in Procs : procState[p] # "none"}
Settled(a) == attempt[a] \in {"resolved", "rejected"}
InFlight == gatewayStarting # 0 /\ ~Settled(gatewayStarting)
NextProcId == Cardinality(Spawned) + 1
CanSpawn == Cardinality(Spawned) < MaxProcs
Idle(c) == call[c].pc = "idle"
\* request handlers are interchangeable: a new call runs in the first free one
FreeCaller(c) == Idle(c) /\ \A d \in Callers : d < c => ~Idle(d)

\* waitForGatewayReady(): phase "check" while checkGatewayHealth() is pending
\* (it returns by `until`), "sleep" during sleep(GATEWAY_POLL_INTERVAL);
\* hs: the gateway was healthy when the pending check began, saw: it has been
\* healthy at some time during the pending check
NoWait == [phase |-> "none", startTime |-> 0, until |-> 0, hs |-> FALSE, saw |-> FALSE]

\* lastUpgrade: result "none" | "rejected" | "spawnfail" | "admitted"; active: a
\* session was active when the upgrade arrived; open: some WebSocket was open;
\* code, reason: the close code and reason given to a connection not admitted
\* auth: the Authorization header of the upgrade request
NoUpgrade == [result |-> "none", active |-> FALSE, open |-> FALSE, code |-> 0, reason |-> "",
              auth |-> <<>>]
\* the header of a client that knows the setup password: Basic base64("u:pw")
ValidAuth == <<"Basic", "dTpwdw==">>

\* a request as the catch-all handler found it: its path (a sequence of
\* pieces of text) and Authorization header, and on arrival: cfg, the
\* configuration exists; handle, the process handle exists; starting, the
\* process of the handle has not answered a health check yet
NoReq == [path |-> <<>>, auth |-> <<>>, cfg |-> FALSE, handle |-> FALSE, starting |-> FALSE]
NoWs == [result |-> "none", cfg |-> FALSE, handle |-> FALSE, auth |-> <<>>, path |-> <<>>]

\* the texts of the model, each as its sequence of characters
Chars(t) ==
  CASE t = "" -> <<>>
    [] t = "pw" -> <<"p", "w">>
    [] t = "u:pw" -> <<"u", ":", "p", "w">>
    [] t = ":pw" -> <<":", "p", "w">>
    [] t = "u:x" -> <<"u", ":", "x">>
    [] t = "u:p:w" -> <<"u", ":", "p", ":", "w">>

\* the client identities getClientIP() can return in the model
Identities == {"10.0.0.1", "10.0.0.2"}
\* a client identity without an entry in rateLimitMap
NoRecord == [count |-> 0, resetAt |-> 0]
NoAuth == [ip |-> "", status |-> "none"]
NoHealth == [events |-> <<>>, result |-> FALSE]
NoReport == [sent |-> FALSE, gatewayRunning |-> FALSE, gatewayHealthy |-> FALSE]

\* the server right after startup() found the configuration present or absent
InitState ==
  /\ gatewayProc = 0
  /\ gatewayStarting = 0
  /\ configured \in BOOLEAN
  /\ procState = [p \in Procs |-> "none"]
  /\ procSignalled = [p \in Procs |-> FALSE]
  /\ attempt = [p \in Procs |-> "none"]
  /\ spawnedBy = [p \in Procs |-> 0]
  /\ call = [c \in Callers |-> IdleCall]
  /\ done = {}
  /\ spawnEarly = [p \in Procs |-> FALSE]
  /\ startDone = FALSE
  /\ pred = [p \in Procs |-> 0]
  /\ now = 0
  /\ wait = NoWait
  /\ healthy = FALSE
  /\ healthyFor = 0
  /\ everHealthy = FALSE
  /\ settledAt = 0
  /\ tuiSession = 0
  /\ wsState = [s \in Sessions |-> "none"]
  /\ ptyState = [s \in Sessions |-> "none"]
  /\ idleChecker = [s \in Sessions |-> FALSE]
  /\ closeReason = [s \in Sessions |-> "none"]
  /\ sessionStart = [s \in Sessions |-> 0]
  /\ lastActivity = [s \in Sessions |-> 0]
  /\ lastEvent = [s \in Sessions |-> 0]
  /\ nextCheck = [s \in Sessions |-> 0]
  /\ closeCalls = [s \in Sessions |-> <<>>]
  /\ phase = "running"
  /\ lastUpgrade = NoUpgrade
  /\ received = [s \in Sessions |-> <<>>]
  /\ ptyWritten = [s \in Sessions |-> <<>>]
  /\ chunks = [s \in Sessions |-> <<>>]
  /\ wsSent = [s \in Sessions |-> <<>>]
  /\ exitSent = [s \in Sessions |-> 0]
  /\ req = [c \in Callers |-> NoReq]
  /\ proxied = {}
  /\ answered = {}
  /\ lastWs = NoWs
  /\ rateLimitMap = [i \in Identities |-> NoRecord]
  /\ lastAuth = NoAuth
  /\ passed = [i \in Identities |-> 0]
  /\ lastHealth = NoHealth
  /\ lastReport = NoReport

\* a deployment with the setup password set and the web terminal left enabled
Init ==
  /\ InitState
  /\ SETUP_PASSWORD = Chars("pw")
  /\ ENABLE_WEB_TUI = TRUE

\* any deployment: the password set or not, the web terminal enabled or not
InitAnyEnv ==
  /\ InitState
  /\ SETUP_PASSWORD \in {<<>>, Chars("pw")}
  /\ ENABLE_WEB_TUI \in BOOLEAN

\* ---------------------------------------------------------------------------
\* startGateway
\* ---------------------------------------------------------------------------

\* gatewayStarting = (async () => { gatewayProc = spawn(...); ...on("error")...
\* on("exit")...; await waitForGatewayReady() ... })(); await gatewayStarting
\* k is the call record of caller c. The spawn either launches the process
\* or fails (an 'error' event follows).
SpawnAttempt(c, k, launched) ==
  LET p == NextProcId IN
  /\ gatewayProc' = p
  /\ gatewayStarting' = p
  /\ procState' = [procState EXCEPT ![p] = IF launched THEN "alive" ELSE "spawnerr"]
  /\ attempt' = [attempt EXCEPT ![p] = "waiting"]
  /\ spawnedBy' = [spawnedBy EXCEPT ![p] = c]
  /\ call' = [call EXCEPT ![c] = [k EXCEPT !.pc = "awaitStart", !.awaiting = p]]
  /\ spawnEarly' = [spawnEarly EXCEPT ![p] = k.early]
  /\ pred' = [pred EXCEPT ![p] = k.stopSig]
  /\ UNCHANGED <<done, startDone>>

\* the synchronous prefix of startGateway, run by caller c for operation o,
\* which sees the handle h on entry; sig is the process its preceding
\* stopGateway signalled; b names the copy of the source
StartGatewayBody(c, o, h, sig, b) ==
  LET k == [pc |-> "idle", op |-> o, awaiting |-> 0,
            joined |-> IF InFlight THEN gatewayStarting ELSE 0,
            early |-> (h = 0 /\ ~startDone), stopSig |-> sig]
  IN
  IF h # 0
    THEN \* "Already running": return
         /\ gatewayProc' = h
         /\ call' = [call EXCEPT ![c] = IdleCall]
         /\ done' = {[joined |-> k.joined, res |-> "ok"]}
         /\ startDone' = TRUE
         /\ UNCHANGED <<gatewayStarting, procState, attempt, spawnedBy, spawnEarly, pred>>
    ELSE IF gatewayStarting # 0
      THEN \* "Already starting": await gatewayStarting
           /\ gatewayProc' = h
           /\ call' = [call EXCEPT ![c] = [k EXCEPT !.pc = "awaitStart",
                                                    !.awaiting = gatewayStarting]]
           /\ UNCHANGED <<gatewayStarting, procState, attempt, spawnedBy, done,
                          startDone, spawnEarly, pred>>
      ELSE IF b = Part000
        THEN \* part_000: await runCmd(doctor --fix) before the slot is installed
             /\ gatewayProc' = h
             /\ call' = [call EXCEPT ![c] = [k EXCEPT !.pc = "doctor"]]
             /\ UNCHANGED <<gatewayStarting, procState, attempt, spawnedBy, done,
                            startDone, spawnEarly, pred>>
        ELSE /\ CanSpawn
             /\ \E launched \in BOOLEAN : SpawnAttempt(c, k, launched)

\* a caller invokes startGateway()
StartGatewayCall(c, b) ==
  /\ FreeCaller(c)
  /\ StartGatewayBody(c, "start", gatewayProc, 0, b)
  /\ UNCHANGED <<configured, procSignalled>>

StartGateway(c, b) == StartGatewayCall(c, b) /\ UNCHANGED otherVars

EnsureStarts_Unconfigured == gatewayProc = 0

\* the test of ensureGatewayRunning(): isConfigured() && !gatewayProc
EnsureStarts == configured /\ gatewayProc = 0

\* ensureGatewayRunning(): if (isConfigured() && !gatewayProc) await startGateway()
\* and nothing at all otherwise
EnsureGatewayRunning(c, b) ==
  /\ FreeCaller(c)
  /\ IF EnsureStarts
       THEN StartGatewayBody(c, "ensure", gatewayProc, 0, b)
       ELSE UNCHANGED <<gatewayProc, gatewayStarting, procState, attempt, spawnedBy,
                        call, histVars>>
  /\ UNCHANGED <<configured, procSignalled, otherVars>>

\* part_000: runCmd(doctor --fix) returned; await runCmd(config set gateway.mode local)
DoctorDone(c) ==
  /\ call[c].pc = "doctor"
  /\ call' = [call EXCEPT ![c].pc = "modeSet"]
  /\ UNCHANGED <<supVars, histVars, otherVars>>

\* part_000: the second runCmd returned; the slot is installed and the
\* process spawned without looking at gatewayProc or gatewayStarting again
ModeSetDone(c) ==
  /\ call[c].pc = "modeSet"
  /\ CanSpawn
  /\ \E launched \in BOOLEAN : SpawnAttempt(c, call[c], launched)
  /\ UNCHANGED <<configured, procSignalled, otherVars>>

\* ---------------------------------------------------------------------------
\* completion of an attempt (the async function assigned to gatewayStarting)
\* ---------------------------------------------------------------------------
Waiters(a) == {c \in Callers : call[c].pc = "awaitStart" /\ call[c].awaiting = a}

FinallyRuns_Never(a) == FALSE

\* try { await gatewayStarting } finally { gatewayStarting = null }: the call
\* that installed the slot of attempt a is among those resumed by its outcome
FinallyRuns(a) == spawnedBy[a] \in Waiters(a)

\* the promise of attempt a settles with outcome r ("resolved" | "rejected");
\* every caller awaiting it resumes in the same turn, and the caller that
\* installed the slot runs finally { gatewayStarting = null }
Settle(a, r) ==
  /\ attempt' = [attempt EXCEPT ![a] = r]
  /\ call' = [c \in Callers |-> IF c \in Waiters(a) THEN IdleCall ELSE call[c]]
  /\ done' = IF Waiters(a) = {} THEN done
             ELSE {[joined |-> call[c].joined,
                    res |-> IF r = "resolved" THEN "ok" ELSE "err"] : c \in Waiters(a)}
  /\ gatewayStarting' = IF FinallyRuns(a) THEN 0 ELSE gatewayStarting
  /\ startDone' = (startDone \/ Waiters(a) # {})

\* waitForGatewayReady() returned true (some gateway process answered
\* GET /health with 200): server.js logs "Ready" and the attempt resolves
AttemptResolves(a) ==
  /\ Settle(a, "resolved")
  /\ UNCHANGED <<gatewayProc, configured, procState, procSignalled, spawnedBy,
                 spawnEarly, pred>>

ReadyOk(a) ==
  /\ attempt[a] = "waiting"
  /\ LiveProcs # {}
  /\ AttemptResolves(a)
  /\ UNCHANGED otherVars

\* part_000: after "Ready" the attempt awaits runCmd(config set gateway.mode local)
ReadyOkPart000(a) ==
  /\ attempt[a] = "waiting"
  /\ LiveProcs # {}
  /\ attempt' = [attempt EXCEPT ![a] = "cfgMode"]
  /\ UNCHANGED <<gatewayProc, gatewayStarting, configured, procState, procSignalled,
                 spawnedBy, call, histVars, otherVars>>

\* part_000: ... then awaits runCmd(config set gateway.auth.token ...)
CfgModeDone(a) ==
  /\ attempt[a] = "cfgMode"
  /\ attempt' = [attempt EXCEPT ![a] = "cfgToken"]
  /\ UNCHANGED <<gatewayProc, gatewayStarting, configured, procState, procSignalled,
                 spawnedBy, call, histVars, otherVars>>

\* part_000: ... and then resolves
CfgTokenDone(a) ==
  /\ attempt[a] = "cfgToken"
  /\ AttemptResolves(a)
  /\ UNCHANGED otherVars

\* waitForGatewayReady() returned false: if (gatewayProc) { kill; gatewayProc = null }
\* throw new Error("Gateway startup timeout")
TimeoutKill_NoSignal ==
  /\ procSignalled' = procSignalled
  /\ gatewayProc' = 0

TimeoutKill ==
  /\ procSignalled' = IF gatewayProc # 0
                        THEN [procSignalled EXCEPT ![gatewayProc] = TRUE]
                        ELSE procSignalled
  /\ gatewayProc' = 0

AttemptTimesOut(a) ==
  /\ TimeoutKill
  /\ Settle(a, "rejected")
  /\ UNCHANGED <<configured, procState, spawnedBy, spawnEarly, pred>>

ReadyTimeout(a) ==
  /\ attempt[a] = "waiting"
  /\ AttemptTimesOut(a)
  /\ UNCHANGED otherVars

\* ---------------------------------------------------------------------------
\* stopGateway, restartGateway, process events
\* ---------------------------------------------------------------------------

StopSignal_None(p) == procSignalled

\* gatewayProc.kill("SIGTERM") in stopGateway(): the signals sent so far,
\* with the one to process p
StopSignal(p) == [procSignalled EXCEPT ![p] = TRUE]

\* stopGateway() / restartGateway() run by c (o = "stop" | "restart", or
\* "importStop" | "importRestart" within POST /setup/import, or "reset"
\* within POST /setup/api/reset)
StopBody(c, o, b) ==
  IF gatewayProc # 0
    THEN \* gatewayProc.kill("SIGTERM"); await sleep(750)
         /\ procSignalled' = StopSignal(gatewayProc)
         /\ call' = [call EXCEPT ![c] = [IdleCall EXCEPT !.pc = "stopSleep", !.op = o,
                                                         !.stopSig = gatewayProc]]
         /\ UNCHANGED <<gatewayProc, gatewayStarting, procState, attempt, spawnedBy,
                        histVars>>
    ELSE /\ UNCHANGED procSignalled
         /\ IF o \in {"restart", "importRestart"}
              THEN StartGatewayBody(c, o, 0, 0, b)
              ELSE IF o = "importStop"
                THEN /\ call' = [call EXCEPT ![c] = [IdleCall EXCEPT !.pc = "readBody",
                                                                      !.op = "import"]]
                     /\ UNCHANGED <<gatewayProc, gatewayStarting, procState, attempt,
                                    spawnedBy, histVars>>
                ELSE UNCHANGED <<gatewayProc, gatewayStarting, procState, attempt, spawnedBy,
                                 call, histVars>>

\* stopGateway() / restartGateway() called by c (o = "stop" | "restart")
StopCall(c, o, b) ==
  /\ FreeCaller(c)
  /\ UNCHANGED configured
  /\ StopBody(c, o, b)

StopGateway(c, b) == StopCall(c, "stop", b) /\ UNCHANGED otherVars
RestartGateway(c, b) == StopCall(c, "restart", b) /\ UNCHANGED otherVars

\* the 750 ms sleep of stopGateway is over: gatewayProc = null, whatever the
\* handle refers to by now; a restart goes on with startGateway()
StopSleepOver(c, b) ==
  /\ call[c].pc = "stopSleep"
  /\ UNCHANGED procSignalled
  /\ IF call[c].op \in {"restart", "importRestart"}
       THEN StartGatewayBody(c, call[c].op, 0, call[c].stopSig, b)
       ELSE /\ gatewayProc' = 0
            /\ call' = [call EXCEPT ![c] = IF call[c].op = "importStop"
                                             THEN [IdleCall EXCEPT !.pc = "readBody",
                                                                   !.op = "import"]
                                             ELSE IdleCall]
            /\ UNCHANGED <<gatewayStarting, procState, attempt, spawnedBy, histVars>>

StopWake(c, b) ==
  /\ call[c].op # "reset"
  /\ StopSleepOver(c, b)
  /\ UNCHANGED <<configured, otherVars>>

\* 'exit' event of a spawned process: gatewayProc = null
ExitEvent(p) ==
  /\ Alive(p)
  /\ procState' = [procState EXCEPT ![p] = "exited"]
  /\ gatewayProc' = 0
  /\ UNCHANGED <<gatewayStarting, configured, procSignalled, attempt, spawnedBy,
                 call, histVars>>

ProcExit(p) == ExitEvent(p) /\ UNCHANGED otherVars

\* 'error' event of a process that could not be spawned: gatewayProc = null
ErrorEvent(p) ==
  /\ procState[p] = "spawnerr"
  /\ procState' = [procState EXCEPT ![p] = "failed"]
  /\ gatewayProc' = 0
  /\ UNCHANGED <<gatewayStarting, configured, procSignalled, attempt, spawnedBy,
                 call, histVars>>

ProcError(p) == ErrorEvent(p) /\ UNCHANGED otherVars

\* ---------------------------------------------------------------------------
\* Specifications: src/src/server.js and src/unnamed/part_000
\* ---------------------------------------------------------------------------
Next ==
  \/ \E c \in Callers : StartGateway(c, ServerJs)
  \/ \E c \in Callers : EnsureGatewayRunning(c, ServerJs)
  \/ \E c \in Callers : StopGateway(c, ServerJs)
  \/ \E c \in Callers : RestartGateway(c, ServerJs)
  \/ \E c \in Callers : StopWake(c, ServerJs)
  \/ \E a \in Procs : ReadyOk(a)
  \/ \E a \in Procs : ReadyTimeout(a)
  \/ \E p \in Procs : ProcExit(p)
  \/ \E p \in Procs : ProcError(p)

Spec == Init /\ [][Next]_vars

NextPart000 ==
  \/ \E c \in Callers : StartGateway(c, Part000)
  \/ \E c \in Callers : EnsureGatewayRunning(c, Part000)
  \/ \E c \in Callers : StopGateway(c, Part000)
  \/ \E c \in Callers : RestartGateway(c, Part000)
  \/ \E c \in Callers : StopWake(c, Part000)
  \/ \E c \in Callers : DoctorDone(c)
  \/ \E c \in Callers : ModeSetDone(c)
  \/ \E a \in Procs : ReadyOkPart000(a)
  \/ \E a \in Procs : CfgModeDone(a)
  \/ \E a \in Procs : CfgTokenDone(a)
  \/ \E a \in Procs : ReadyTimeout(a)
  \/ \E p \in Procs : ProcExit(p)
  \/ \E p \in Procs : ProcError(p)

SpecPart000 == Init /\ [][NextPart000]_vars

\* ---------------------------------------------------------------------------
\* The readiness wait in time (src/src/server.js): one startGateway() call,
\* its polling loop, the gateway's health and the process events
\* ---------------------------------------------------------------------------
Min(a, b) == IF a < b THEN a ELSE b
Waiting == wait.phase \in {"check", "sleep"}
TheAttempt == CHOOSE a \in Procs : attempt[a] = "waiting"

\* checkGatewayHealth() is called: http.get(.../health, { timeout: 2000 })
BeginCheck(st) ==
  [phase |-> "check", startTime |-> st, until |-> now + HEALTH_TIMEOUT,
   hs |-> healthy, saw |-> healthy]

\* startGateway() spawns the process and enters waitForGatewayReady():
\* startTime = Date.now(), the loop condition holds, the first check begins
TimedStartGateway(c) ==
  /\ Spawned = {}
  /\ StartGatewayCall(c, ServerJs)
  /\ wait' = BeginCheck(now)
  /\ UNCHANGED <<now, healthy, healthyFor, everHealthy, settledAt, tuiVars, routerVars, authVars>>

\* checkGatewayHealth() resolves with r: true when the gateway answered 200
\* (it was healthy at some time during the check), false on error, timeout
\* or another status. true: waitForGatewayReady() returns true and the
\* attempt resolves; false: await sleep(GATEWAY_POLL_INTERVAL)
HealthCheckReturns(r) ==
  /\ wait.phase = "check"
  /\ r => wait.saw
  /\ ~r => ~(wait.hs /\ healthy)
  /\ IF r
       THEN /\ AttemptResolves(TheAttempt)
            /\ wait' = [wait EXCEPT !.phase = "done"]
            /\ settledAt' = now
       ELSE /\ wait' = [wait EXCEPT !.phase = "sleep", !.until = now + GATEWAY_POLL_INTERVAL]
            /\ UNCHANGED <<supVars, call, histVars, settledAt>>
  /\ UNCHANGED <<now, healthy, healthyFor, everHealthy, tuiVars, routerVars, authVars>>

WithinTimeout_PollInterval(st) == now - st < GATEWAY_POLL_INTERVAL

\* the loop condition of waitForGatewayReady()
WithinTimeout(st) == now - st < GATEWAY_READY_TIMEOUT

SleepIsOver_Never == FALSE

\* the timer of await sleep(GATEWAY_POLL_INTERVAL) fires when its time has come
SleepIsOver == now = wait.until

\* the sleep is over: while (Date.now() - startTime < GATEWAY_READY_TIMEOUT)
\* goes round again, or the loop ends and waitForGatewayReady() returns false
PollSleepOver ==
  /\ wait.phase = "sleep"
  /\ SleepIsOver
  /\ IF WithinTimeout(wait.startTime)
       THEN /\ wait' = BeginCheck(wait.startTime)
            /\ UNCHANGED <<supVars, call, histVars, settledAt>>
       ELSE /\ AttemptTimesOut(TheAttempt)
            /\ wait' = [wait EXCEPT !.phase = "done"]
            /\ settledAt' = now
  /\ UNCHANGED <<now, healthy, healthyFor, everHealthy, tuiVars, routerVars, authVars>>

\* time passes; the timers that are due fire first
Tick ==
  /\ Waiting
  /\ now < wait.until
  /\ now' = now + TimeStep
  /\ healthyFor' = IF healthy THEN Min(healthyFor + TimeStep, HealthyCap) ELSE healthyFor
  /\ UNCHANGED <<supVars, call, histVars, wait, healthy, everHealthy, settledAt, tuiVars, routerVars, authVars>>

\* the spawned gateway begins to answer GET /health with 200
BecomeHealthy ==
  /\ Waiting
  /\ ~everHealthy
  /\ LiveProcs # {}
  /\ healthy' = TRUE
  /\ everHealthy' = TRUE
  /\ healthyFor' = 0
  /\ wait' = [wait EXCEPT !.saw = (@ \/ wait.phase = "check")]
  /\ UNCHANGED <<supVars, call, histVars, now, settledAt, tuiVars, routerVars, authVars>>

\* the gateway process exits: it no longer answers
TimedProcExit(p) ==
  /\ ExitEvent(p)
  /\ healthy' = FALSE
  /\ healthyFor' = 0
  /\ UNCHANGED <<now, wait, everHealthy, settledAt, tuiVars, routerVars, authVars>>

TimedProcError(p) ==
  /\ ErrorEvent(p)
  /\ UNCHANGED <<timeVars, tuiVars, routerVars, authVars>>

NextTimed ==
  \/ \E c \in Callers : TimedStartGateway(c)
  \/ \E r \in BOOLEAN : HealthCheckReturns(r)
  \/ PollSleepOver
  \/ Tick
  \/ BecomeHealthy
  \/ \E p \in Procs : TimedProcExit(p)
  \/ \E p \in Procs : TimedProcError(p)

SpecTimed == Init /\ [][NextTimed]_vars

\* time passes, every health request ends (with an answer, an error or its
\* timeout) and every timer that is due fires
SpecTimedFair ==
  /\ Init /\ [][NextTimed]_vars
  /\ WF_vars(Tick)
  /\ WF_vars(\E r \in BOOLEAN : HealthCheckReturns(r))
  /\ WF_vars(PollSleepOver)

\* ---------------------------------------------------------------------------
\* The web-terminal session bridge (src/src/server.js, handleTuiConnection)
\* ---------------------------------------------------------------------------
PtyRunning(s) == ptyState[s] \in {"alive", "killed"}
Admitted == {s \in Sessions : wsState[s] # "none"}
NextSessionId == Cardinality(Admitted) + 1
CanAdmit == Cardinality(Admitted) < MaxSessions
\* a session whose WebSocket is open and whose pseudo-terminal is alive
Active(s) == wsState[s] = "open" /\ ptyState[s] = "alive"
ActiveSessions == {s \in Sessions : Active(s)}

\* ws.close(code, reason) called by the server: an open socket begins the
\* closing handshake; on a closing or closed socket the call does nothing
ServerClose(ws, reasons, S, r) ==
  /\ wsState' = [s \in Sessions |-> IF s \in S /\ ws[s] = "open" THEN "closing" ELSE ws[s]]
  /\ closeReason' = [s \in Sessions |-> IF s \in S /\ ws[s] = "open" THEN r ELSE reasons[s]]

\* ptyProcess.kill(): SIGHUP to a pseudo-terminal process that has not exited
PtyKill(S) ==
  ptyState' = [s \in Sessions |-> IF s \in S /\ ptyState[s] = "alive" THEN "killed"
                                  ELSE ptyState[s]]

OnSpawnFailure_ClearsSlot ==
  /\ tuiSession' = 0
  /\ UNCHANGED <<wsState, ptyState, idleChecker, closeReason, sessionStart,
                 lastActivity, lastEvent, nextCheck, closeCalls>>

\* catch (e) { ws.close(1011, ...); return }: nothing of the bridge changes
OnSpawnFailure ==
  UNCHANGED <<tuiSession, wsState, ptyState, idleChecker, closeReason, sessionStart,
              lastActivity, lastEvent, nextCheck, closeCalls>>

\* handleTuiConnection(ws, req) for an upgrade request whose Authorization
\* header a passed the tests of server.on("upgrade").
\* launched: pty.spawn() returned (it throws otherwise)
UpgradeWith(a, launched) ==
  /\ phase = "running"
  /\ IF tuiSession # 0 /\ wsState[tuiSession] = "open"
       THEN \* ws.close(1000, "Another session is already active")
            /\ lastUpgrade' = [result |-> "rejected", active |-> ActiveSessions # {},
                               open |-> TRUE, code |-> 1000,
                               reason |-> "Another session is already active", auth |-> a]
            /\ UNCHANGED <<tuiSession, wsState, ptyState, idleChecker, closeReason,
                           sessionStart, lastActivity, lastEvent, nextCheck, closeCalls>>
       ELSE IF ~launched
         THEN \* ws.close(1011, "Failed to create terminal session")
              /\ lastUpgrade' = [result |-> "spawnfail", active |-> ActiveSessions # {},
                                 open |-> \E s \in Sessions : wsState[s] = "open",
                                 code |-> 1011,
                                 reason |-> "Failed to create terminal session", auth |-> a]
              /\ OnSpawnFailure
         ELSE LET s == NextSessionId IN
              /\ CanAdmit
              /\ wsState' = [wsState EXCEPT ![s] = "open"]
              /\ ptyState' = [ptyState EXCEPT ![s] = "alive"]
              /\ sessionStart' = [sessionStart EXCEPT ![s] = now]
              /\ lastActivity' = [lastActivity EXCEPT ![s] = now]
              /\ lastEvent' = [lastEvent EXCEPT ![s] = now]
              /\ tuiSession' = s
              /\ idleChecker' = [idleChecker EXCEPT ![s] = TRUE]
              /\ nextCheck' = [nextCheck EXCEPT ![s] = now + CHECK_INTERVAL]
              /\ closeCalls' = [closeCalls EXCEPT ![s] = <<>>]
              /\ lastUpgrade' = [result |-> "admitted", active |-> ActiveSessions # {},
                                 open |-> \E q \in Sessions : wsState[q] = "open",
                                 code |-> 0, reason |-> "", auth |-> a]
              /\ UNCHANGED closeReason
  /\ UNCHANGED <<phase, now, gatewayVars, dataVars>>

\* server.on("upgrade") for /tui/ws with valid credentials
Upgrade(launched) == UpgradeWith(ValidAuth, launched)

MaxDurationReached_Doubled(s, t) == t - sessionStart[s] > 2 * TUI_MAX_SESSION_MS

MaxDurationReached(s, t) == t - sessionStart[s] > TUI_MAX_SESSION_MS

IdleTimedOut_Never(s, t) == FALSE

IdleTimedOut(s, t) == t - lastActivity[s] > TUI_IDLE_TIMEOUT_MS

CheckCloses_NoReturn(s, t) ==
  (IF MaxDurationReached(s, t) THEN <<"max">> ELSE <<>>)
    \o (IF IdleTimedOut(s, t) THEN <<"idle">> ELSE <<>>)

\* the reasons of the ws.close() calls of the setInterval callback that runs
\* with Date.now() = t: each test that fires closes and returns
CheckCloses(s, t) ==
  IF MaxDurationReached(s, t) THEN <<"max">>
  ELSE IF IdleTimedOut(s, t) THEN <<"idle">>
  ELSE <<>>

\* the setInterval callback of session s runs with Date.now() = t
IdleCheckAt(s, t) ==
  /\ phase # "exited"
  /\ idleChecker[s]
  /\ IF CheckCloses(s, t) # <<>>
       THEN \* a second ws.close() finds the socket closing and changes nothing
            ServerClose(wsState, closeReason, {s}, Head(CheckCloses(s, t)))
       ELSE UNCHANGED <<wsState, closeReason>>
  /\ UNCHANGED <<tuiSession, ptyState, idleChecker, sessionStart, lastActivity, lastEvent,
                 phase, lastUpgrade, now, gatewayVars, dataVars>>

\* the periodic check fires at some time after the session began
IdleCheck(s) ==
  /\ \E t \in CheckTimes : IdleCheckAt(s, t)
  /\ UNCHANGED <<nextCheck, closeCalls>>

ExitMessageSent_Always(s) == TRUE

\* the test of ptyProcess.onExit: the exit message is sent, and the socket
\* closed, only while the socket is open
ExitMessageSent(s) == wsState[s] = "open"

\* ptyProcess.onExit: the pseudo-terminal process has exited. Once the server
\* process is gone no handler runs
PtyExit(s) ==
  /\ PtyRunning(s)
  /\ ptyState' = [ptyState EXCEPT ![s] = "exited"]
  /\ IF phase = "exited"
       THEN UNCHANGED <<tuiSession, wsState, idleChecker, closeReason, exitSent>>
       ELSE /\ idleChecker' = [idleChecker EXCEPT ![s] = FALSE]
            /\ tuiSession' = 0
            /\ exitSent' = [exitSent EXCEPT ![s] = IF ExitMessageSent(s) THEN @ + 1 ELSE @]
            /\ ServerClose(wsState, closeReason, {s}, "exit")
  /\ UNCHANGED <<sessionStart, lastActivity, lastEvent, nextCheck, closeCalls, phase, lastUpgrade, now,
                 gatewayVars, received, ptyWritten, chunks, wsSent>>

\* the exit of a process that has been sent SIGHUP
PtyExitAfterKill(s) == ptyState[s] = "killed" /\ PtyExit(s)

\* the body shared by ws.on("close") and ws.on("error"):
\* clearInterval(idleChecker); ptyProcess.kill(); tuiSession = null
CloseHandler_NoKill(s) ==
  /\ idleChecker' = [idleChecker EXCEPT ![s] = FALSE]
  /\ ptyState' = ptyState
  /\ tuiSession' = 0

CloseHandler(s) ==
  /\ idleChecker' = [idleChecker EXCEPT ![s] = FALSE]
  /\ PtyKill({s})
  /\ tuiSession' = 0

\* the client (or the network) begins to close the WebSocket of session s
ClientClose(s) ==
  /\ phase # "exited"
  /\ wsState[s] = "open"
  /\ wsState' = [wsState EXCEPT ![s] = "closing"]
  /\ UNCHANGED <<tuiSession, ptyState, idleChecker, closeReason, sessionStart,
                 lastActivity, lastEvent, nextCheck, closeCalls, phase, lastUpgrade, now, gatewayVars, dataVars>>

\* ws.on("close"): the closing WebSocket is closed
WsCloseEvent(s) ==
  /\ phase # "exited"
  /\ wsState[s] = "closing"
  /\ wsState' = [wsState EXCEPT ![s] = "closed"]
  /\ CloseHandler(s)
  /\ UNCHANGED <<closeReason, sessionStart, lastActivity, lastEvent, nextCheck, closeCalls, phase,
                 lastUpgrade, now, gatewayVars, dataVars>>

\* ws.on("error"): the WebSocket fails and is closing from then on
WsError(s) ==
  /\ phase # "exited"
  /\ wsState[s] \in {"open", "closing"}
  /\ wsState' = [wsState EXCEPT ![s] = "closing"]
  /\ CloseHandler(s)
  /\ UNCHANGED <<closeReason, sessionStart, lastActivity, lastEvent, nextCheck, closeCalls, phase,
                 lastUpgrade, now, gatewayVars, dataVars>>

\* gracefulShutdown(signal): server.close(); every client of wss is closed
\* with 1001; the session in the slot has its pty killed and its socket
\* closed and the slot is cleared; stopGateway() is called; process.exit(0)
\* is scheduled
GracefulShutdown(c) ==
  /\ phase # "exited"
  /\ phase' = "shutdown"
  /\ ServerClose(wsState, closeReason, Sessions, "shutdown")
  /\ PtyKill({tuiSession})
  /\ tuiSession' = 0
  /\ StopCall(c, "stop", ServerJs)
  /\ UNCHANGED <<idleChecker, sessionStart, lastActivity, lastEvent, nextCheck, closeCalls, lastUpgrade,
                 timeVars, dataVars, routerVars, authVars>>

\* setTimeout(() => process.exit(0), 5000) fires: the server process is
\* gone, with its timers and sockets; the terminals its pseudo-terminal
\* processes run on are hung up
ForceExit ==
  /\ phase = "shutdown"
  /\ phase' = "exited"
  /\ idleChecker' = [s \in Sessions |-> FALSE]
  /\ wsState' = [s \in Sessions |-> IF wsState[s] = "none" THEN "none" ELSE "closed"]
  /\ PtyKill(Sessions)
  /\ UNCHANGED <<tuiSession, closeReason, sessionStart, lastActivity, lastEvent, nextCheck, closeCalls,
                 lastUpgrade, now, gatewayVars, dataVars>>

NextTui ==
  \/ \E launched \in BOOLEAN : Upgrade(launched)
  \/ \E s \in Sessions : IdleCheck(s)
  \/ \E s \in Sessions : PtyExit(s)
  \/ \E s \in Sessions : ClientClose(s)
  \/ \E s \in Sessions : WsCloseEvent(s)
  \/ \E s \in Sessions : WsError(s)
  \/ \E c \in Callers : GracefulShutdown(c)
  \/ ForceExit

SpecTui == Init /\ [][NextTui]_vars

\* the session bridge with its cleanup in the end: no more than
\* MaxFairSessions sessions are begun, a closing WebSocket is closed in the
\* end, a signalled pseudo-terminal process exits, and the exit timer of the
\* shutdown fires
FairUpgrade(launched) ==
  /\ Cardinality(Admitted) < MaxFairSessions
  /\ Upgrade(launched)

NextTuiFair ==
  \/ \E launched \in BOOLEAN : FairUpgrade(launched)
  \/ \E s \in Sessions : IdleCheck(s)
  \/ \E s \in Sessions : PtyExit(s)
  \/ \E s \in Sessions : ClientClose(s)
  \/ \E s \in Sessions : WsCloseEvent(s)
  \/ \E s \in Sessions : WsError(s)
  \/ \E c \in Callers : GracefulShutdown(c)
  \/ ForceExit

SpecTuiFair ==
  /\ Init /\ [][NextTuiFair]_vars
  /\ \A s \in Sessions : WF_vars(WsCloseEvent(s))
  /\ \A s \in Sessions : WF_vars(PtyExitAfterKill(s))
  /\ WF_vars(ForceExit)

\* ---------------------------------------------------------------------------
\* The session bridge in time: one session, its activity and periodic check
\* ---------------------------------------------------------------------------
TimedUpgrade(launched) ==
  /\ Admitted = {}
  /\ Upgrade(launched)

\* the interval timer of session s is due
TimedIdleCheck(s) ==
  /\ now = nextCheck[s]
  /\ IdleCheckAt(s, now)
  /\ nextCheck' = [nextCheck EXCEPT ![s] = now + CHECK_INTERVAL]
  /\ closeCalls' = [closeCalls EXCEPT ![s] = CheckCloses(s, now)]

ActivityStamp_Kept(s) == lastActivity[s]

\* lastActivity = Date.now(), the first statement of ptyProcess.onData and of
\* ws.on("message")
ActivityStamp(s) == now

\* the activity recorded by ptyProcess.onData and ws.on("message")
Activity(s) ==
  /\ lastActivity' = [lastActivity EXCEPT ![s] = ActivityStamp(s)]
  /\ lastEvent' = [lastEvent EXCEPT ![s] = now]
  /\ UNCHANGED <<tuiSession, wsState, ptyState, idleChecker, closeReason, sessionStart,
                 nextCheck, closeCalls, phase, lastUpgrade, now, gatewayVars, dataVars>>

\* ptyProcess.onData: lastActivity = Date.now(); output is sent if the socket is open
PtyData(s) ==
  /\ PtyRunning(s)
  /\ Activity(s)

\* ws.on("message"): lastActivity = Date.now(); the input is written to the pty
WsMessage(s) ==
  /\ wsState[s] = "open"
  /\ Activity(s)

\* time passes while the session is open; a timer that is due fires first
TuiTick ==
  /\ \E s \in Sessions : idleChecker[s] /\ wsState[s] = "open"
  /\ \A s \in Sessions : idleChecker[s] => now < nextCheck[s]
  /\ now' = now + TuiTimeStep
  /\ UNCHANGED <<tuiVars, gatewayVars>>

NextTuiTimed ==
  \/ \E launched \in BOOLEAN : TimedUpgrade(launched)
  \/ \E s \in Sessions : TimedIdleCheck(s)
  \/ \E s \in Sessions : WsMessage(s)
  \/ \E s \in Sessions : PtyData(s)
  \/ TuiTick
  \/ \E s \in Sessions : PtyExit(s)
  \/ \E s \in Sessions : ClientClose(s)
  \/ \E s \in Sessions : WsCloseEvent(s)

SpecTuiTimed == Init /\ [][NextTuiTimed]_vars

\* ---------------------------------------------------------------------------
\* The data path of the session bridge: one session, the messages of its
\* client and the output of its pseudo-terminal
\* ---------------------------------------------------------------------------
Payloads == {"a", "b"}
\* a WebSocket message: text that JSON.parse accepts (json, with its type and
\* data fields) or rejects (then data is the text itself)
InputMsg(p) == [json |-> TRUE, type |-> "input", data |-> p]
ResizeMsg == [json |-> TRUE, type |-> "resize", data |-> ""]
OtherMsg == [json |-> TRUE, type |-> "ping", data |-> ""]
RawMsg(p) == [json |-> FALSE, type |-> "none", data |-> p]
Messages == {InputMsg(p) : p \in Payloads} \cup {RawMsg(p) : p \in Payloads}
              \cup {ResizeMsg, OtherMsg}
\* what ptyProcess.write() is given: the data of an input message, or
\* msg.toString(), the whole text of the message
Bytes(p) == [frame |-> "none", data |-> p]
Text(m) == [frame |-> m.type, data |-> m.data]

\* what the handler of ws.on("message") writes to the pty for message m:
\* try { message = JSON.parse(msg); input: write(message.data); resize: resize() }
\* catch { ptyProcess.write(msg.toString()) }
\* resizeThrows: the call of ptyProcess.resize() throws (the pty rejects a
\* size that is not a positive number, or is gone)
PtyWrites(m, resizeThrows) ==
  IF ~m.json THEN <<Text(m)>>
  ELSE IF m.type = "input" THEN <<Bytes(m.data)>>
  ELSE IF m.type = "resize" /\ resizeThrows THEN <<Text(m)>>
  ELSE <<>>

\* ws.on("message") of session s for message m
OnMessage(s, m, resizeThrows) ==
  /\ wsState[s] = "open"
  /\ Len(received[s]) < MaxMsgs
  /\ lastActivity' = [lastActivity EXCEPT ![s] = ActivityStamp(s)]
  /\ lastEvent' = [lastEvent EXCEPT ![s] = now]
  /\ received' = [received EXCEPT ![s] = Append(@, m)]
  /\ ptyWritten' = [ptyWritten EXCEPT ![s] = @ \o PtyWrites(m, resizeThrows)]
  /\ UNCHANGED <<tuiSession, wsState, ptyState, idleChecker, closeReason, sessionStart,
                 nextCheck, closeCalls, phase, lastUpgrade, chunks, wsSent, exitSent, now, gatewayVars>>

OutputSent_Always(s) == TRUE

\* if (ws.readyState === 1)
OutputSent(s) == wsState[s] = "open"

\* ptyProcess.onData of session s for chunk d:
\* lastActivity = Date.now(); if (ws.readyState === 1) ws.send({type: "output", data})
OnData(s, d) ==
  /\ PtyRunning(s)
  /\ Len(chunks[s]) < MaxMsgs
  /\ lastActivity' = [lastActivity EXCEPT ![s] = ActivityStamp(s)]
  /\ lastEvent' = [lastEvent EXCEPT ![s] = now]
  /\ chunks' = [chunks EXCEPT ![s] = Append(@, [data |-> d, open |-> wsState[s] = "open"])]
  /\ wsSent' = [wsSent EXCEPT ![s] = IF OutputSent(s) THEN Append(@, d) ELSE @]
  /\ UNCHANGED <<tuiSession, wsState, ptyState, idleChecker, closeReason, sessionStart,
                 nextCheck, closeCalls, phase, lastUpgrade, received, ptyWritten, exitSent, now,
                 gatewayVars>>

NextTuiData ==
  \/ \E launched \in BOOLEAN : TimedUpgrade(launched)
  \/ \E s \in Sessions, m \in Messages, t \in BOOLEAN : OnMessage(s, m, t)
  \/ \E s \in Sessions, d \in Payloads : OnData(s, d)
  \/ \E s \in Sessions : IdleCheck(s)
  \/ \E s \in Sessions : PtyExit(s)
  \/ \E s \in Sessions : ClientClose(s)
  \/ \E s \in Sessions : WsCloseEvent(s)
  \/ \E s \in Sessions : WsError(s)

SpecTuiData == Init /\ [][NextTuiData]_vars

\* ---------------------------------------------------------------------------
\* The router (src/src/server.js): the catch-all proxy middleware, the proxy
\* and the WebSocket upgrades outside the terminal path
\* ---------------------------------------------------------------------------
OPENCLAW_GATEWAY_TOKEN == "gateway-token"
Bearer(token) == <<"Bearer", token>>
\* Authorization headers a client sends (<<>>: no header)
ClientAuths == {<<>>, <<"Basic", "dXNlcjpwdw==">>}
\* paths no management route handles
SetupPrefix == <<"/", "setup">>
Paths == {<<"/", "chat">>, <<"/", "setup", "x">>}
\* String.prototype.startsWith
StartsWith(p, q) == Len(p) >= Len(q) /\ SubSeq(p, 1, Len(q)) = q

SetAuthorization_KeepClient(auth, v) == IF auth = <<>> THEN v ELSE auth

\* proxyReq.setHeader("Authorization", v) on a request whose Authorization is auth
SetAuthorization(auth, v) == v

\* the answer a request got
Answer(r, response) == [path |-> r.path, cfg |-> r.cfg, handle |-> r.handle,
                        starting |-> r.starting, response |-> response]
\* proxy.web(req, res, { target }), with the header proxy.on("proxyReq") sets
Forwarded(r) ==
  [path |-> r.path, auth |-> r.auth, cfg |-> r.cfg, handle |-> r.handle,
   starting |-> r.starting,
   fwdAuth |-> SetAuthorization(r.auth, Bearer(OPENCLAW_GATEWAY_TOKEN))]

\* every request the proxy can be handed
AllForwarded ==
  {Forwarded(r) : r \in [path : Paths, auth : ClientAuths, cfg : BOOLEAN,
                          handle : BOOLEAN, starting : BOOLEAN]}

\* the end of the catch-all handler for the requests R (a set of callers)
\* once ensureGatewayRunning() has returned; h is the handle then:
\* if (!gatewayProc) return res.redirect("/loading"); proxy.web(req, res, ...)
AfterEnsure(R, h) ==
  IF h = 0
    THEN /\ answered' = {Answer(req[c], "redirect /loading") : c \in R}
         /\ UNCHANGED proxied
    ELSE /\ proxied' = proxied \cup {Forwarded(req[c]) : c \in R}
         /\ Cardinality(proxied') <= MaxInFlight
         /\ answered' = {}

\* app.use(async (req, res) => ...): a request with path p and Authorization
\* header a reaches the catch-all handler, run by c
CatchAll(c, p, a) ==
  LET r == [path |-> p, auth |-> a, cfg |-> configured, handle |-> gatewayProc # 0,
            starting |-> gatewayProc # 0 /\ attempt[gatewayProc] = "waiting"]
  IN
  /\ FreeCaller(c)
  /\ IF ~configured /\ ~StartsWith(p, SetupPrefix)
       THEN \* return res.redirect("/setup")
            /\ answered' = {Answer(r, "redirect /setup")}
            /\ UNCHANGED <<supVars, call, histVars, req, proxied>>
       ELSE IF configured /\ gatewayProc = 0
         THEN \* await ensureGatewayRunning(): await startGateway()
              /\ StartGatewayBody(c, "ensure", 0, 0, ServerJs)
              /\ req' = [req EXCEPT ![c] = r]
              /\ answered' = {}
              /\ UNCHANGED <<configured, procSignalled, proxied>>
         ELSE \* ensureGatewayRunning() does nothing, or is not called
              /\ proxied' = proxied \cup {Forwarded(r)}
              /\ Cardinality(proxied') <= MaxInFlight
              /\ answered' = {}
              /\ UNCHANGED <<supVars, call, histVars, req>>
  /\ UNCHANGED <<lastWs, timeVars, tuiVars, authVars>>

\* the start attempt a resolves: the handlers that awaited it go on
RouterReadyOk(a) ==
  /\ attempt[a] = "waiting"
  /\ LiveProcs # {}
  /\ AttemptResolves(a)
  /\ AfterEnsure(Waiters(a), gatewayProc)
  /\ req' = [c \in Callers |-> IF c \in Waiters(a) THEN NoReq ELSE req[c]]
  /\ UNCHANGED <<lastWs, timeVars, tuiVars, authVars>>

\* the start attempt a fails:
\* catch (err) { return res.status(503).send(`Gateway not ready: ${err}`) }
RouterReadyTimeout(a) ==
  /\ attempt[a] = "waiting"
  /\ AttemptTimesOut(a)
  /\ answered' = {Answer(req[c], "503") : c \in Waiters(a)}
  /\ req' = [c \in Callers |-> IF c \in Waiters(a) THEN NoReq ELSE req[c]]
  /\ UNCHANGED <<proxied, lastWs, timeVars, tuiVars, authVars>>

OnProxyError_ClearsHandle ==
  /\ gatewayProc' = 0
  /\ UNCHANGED <<gatewayStarting, configured, procState, procSignalled, attempt, spawnedBy>>

\* what proxy.on("error") does to the supervisor: nothing
OnProxyError == UNCHANGED supVars

\* proxy.on("error") for the proxied request r: the connection to the
\* gateway failed; res.writeHead(502); res.end("Gateway unavailable")
ProxyError(r) ==
  /\ r \in proxied
  /\ proxied' = proxied \ {r}
  /\ answered' = {Answer(r, "502")}
  /\ OnProxyError
  /\ UNCHANGED <<call, histVars, req, lastWs, timeVars, tuiVars, authVars>>

\* the gateway answers the proxied request r
ProxyOk(r) ==
  /\ r \in proxied
  /\ LiveProcs # {}
  /\ proxied' = proxied \ {r}
  /\ answered' = {Answer(r, "gateway")}
  /\ UNCHANGED <<supVars, call, histVars, req, lastWs, timeVars, tuiVars, authVars>>

CanForwardWs_Configured == configured

\* if (isConfigured() && gatewayProc)
CanForwardWs == configured /\ gatewayProc # 0

\* server.on("upgrade") for a path other than /tui/ws, with Authorization
\* header a: proxy.ws(req, socket, head, { target, headers: { Authorization } })
\* or socket.destroy()
WsUpgrade(p, a) ==
  /\ lastWs' = [result |-> IF CanForwardWs THEN "forwarded" ELSE "destroyed",
                cfg |-> configured, handle |-> gatewayProc # 0,
                auth |-> IF CanForwardWs
                           THEN SetAuthorization(a, Bearer(OPENCLAW_GATEWAY_TOKEN))
                           ELSE <<>>,
                path |-> p]
  /\ UNCHANGED <<supVars, call, histVars, req, proxied, answered, timeVars, tuiVars, authVars>>

NextRouter ==
  \/ \E c \in Callers, p \in Paths, a \in ClientAuths : CatchAll(c, p, a)
  \/ \E a \in Procs : RouterReadyOk(a)
  \/ \E a \in Procs : RouterReadyTimeout(a)
  \/ \E r \in AllForwarded : ProxyError(r)
  \/ \E r \in AllForwarded : ProxyOk(r)
  \/ \E p \in Paths, a \in ClientAuths : WsUpgrade(p, a)
  \/ \E p \in Procs : ProcExit(p)
  \/ \E p \in Procs : ProcError(p)

SpecRouter == Init /\ [][NextRouter]_vars

\* ---------------------------------------------------------------------------
\* Management requests: checkRateLimit, getClientIP, requireSetupAuth
\* ---------------------------------------------------------------------------
\* the clock of the management requests: a request can arrive at a reset time
\* and after it
RateStep == RATE_LIMIT_WINDOW
RateHorizon == 2 * RateStep

\* a request as getClientIP() reads it: the addresses of its x-forwarded-for
\* header (<<>> without the header) and the address of its socket
Requests == {[xff |-> <<>>, remote |-> "10.0.0.1"], [xff |-> <<>>, remote |-> "10.0.0.2"],
             [xff |-> <<"10.0.0.2", "10.0.0.1">>, remote |-> "10.0.0.1"]}

\* req.headers["x-forwarded-for"]?.split(",")[0]?.trim() || req.socket?.remoteAddress
getClientIP(r) == IF r.xff # <<>> THEN r.xff[1] ELSE r.remote

\* Authorization headers, split at the spaces; the second word of a Basic
\* header is the base64 text of the credentials
AuthHeaders == {<<>>, <<"Bearer", "gateway-token">>, <<"Basic", "dTpwdw==">>,
                <<"Basic", "OnB3">>, <<"Basic", "cHc=">>, <<"Basic", "dTp4">>,
                <<"Basic", "dTpwOnc=">>}

\* Buffer.from(text, "base64").toString() on the texts of AuthHeaders
FromBase64(t) ==
  CASE t = "dTpwdw==" -> Chars("u:pw")
    [] t = "OnB3" -> Chars(":pw")
    [] t = "cHc=" -> Chars("pw")
    [] t = "dTp4" -> Chars("u:x")
    [] t = "dTpwOnc=" -> Chars("u:p:w")
    [] OTHER -> Chars("")

\* credentials.indexOf(":"), counted from 1; 0 when there is none
IndexOfColon(cs) ==
  IF \E i \in 1..Len(cs) : cs[i] = ":"
    THEN CHOOSE i \in 1..Len(cs) : cs[i] = ":" /\ \A j \in 1..(i - 1) : cs[j] # ":"
    ELSE 0

\* colonIndex > -1 ? credentials.slice(colonIndex + 1) : ""
PasswordOf(a) ==
  LET credentials == FromBase64(a[2])
      colonIndex == IndexOfColon(credentials)
  IN IF colonIndex > 0 THEN SubSeq(credentials, colonIndex + 1, Len(credentials)) ELSE <<>>

\* !auth || !auth.startsWith("Basic ")
NotBasic(a) == a = <<>> \/ a[1] # "Basic"

timingSafeEqual(a, b) == IF Len(a) # Len(b) THEN FALSE ELSE a = b

\* checkRateLimit: the record of identity ip after this request was counted
Counted(ip) ==
  LET stored == rateLimitMap[ip]
      record == IF stored = NoRecord
                  THEN [count |-> 0, resetAt |-> now + RATE_LIMIT_WINDOW]
                  ELSE stored
      current == IF now > record.resetAt
                   THEN [count |-> 0, resetAt |-> now + RATE_LIMIT_WINDOW]
                   ELSE record
  IN [current EXCEPT !.count = @ + 1]

WithinLimit_OneMore(record) == record.count <= RATE_LIMIT_MAX + 1

\* return record.count <= RATE_LIMIT_MAX
WithinLimit(record) == record.count <= RATE_LIMIT_MAX

\* the answer of requireSetupAuth to a request that reached the password test
AuthStatus(a) ==
  IF NotBasic(a) THEN "401"
  ELSE IF ~timingSafeEqual(PasswordOf(a), SETUP_PASSWORD) THEN "401"
  ELSE "next"

\* requireSetupAuth(req, res, next) on a request r with Authorization header a
requireSetupAuth(r, a) ==
  LET ip == getClientIP(r) IN
  /\ Counted(ip).count <= RATE_LIMIT_MAX + MaxOver
  /\ IF SETUP_PASSWORD = <<>>
       THEN /\ lastAuth' = [ip |-> ip, status |-> "500"]
            /\ UNCHANGED <<rateLimitMap, passed>>
       ELSE /\ rateLimitMap' = [rateLimitMap EXCEPT ![ip] = Counted(ip)]
            /\ lastAuth' = [ip |-> ip,
                            status |-> IF WithinLimit(Counted(ip)) THEN AuthStatus(a) ELSE "429"]
            /\ passed' = [passed EXCEPT ![ip] =
                            (IF Counted(ip).resetAt # rateLimitMap[ip].resetAt THEN 0 ELSE @)
                            + (IF WithinLimit(Counted(ip)) THEN 1 ELSE 0)]
  /\ UNCHANGED <<supVars, call, histVars, timeVars, tuiVars, routerVars, envVars, lastHealth,
                 lastReport>>

\* time passes between requests
RateTick ==
  /\ now < RateHorizon
  /\ now' = now + RateStep
  /\ UNCHANGED <<supVars, call, histVars, waitVars, tuiVars, routerVars, authVars>>

\* the headers of management requests: none, a wrong password, the right one
SetupAuths == {<<>>, <<"Basic", "dTp4">>, <<"Basic", "dTpwdw==">>}

NextAuth ==
  \/ \E r \in Requests, a \in SetupAuths : requireSetupAuth(r, a)
  \/ RateTick

\* management requests to a configured deployment, the password set or not
InitAuth == InitAnyEnv /\ configured /\ ENABLE_WEB_TUI

SpecAuth == InitAuth /\ [][NextAuth]_vars

\* ---------------------------------------------------------------------------
\* WebSocket upgrades: the tests in front of handleTuiConnection
\* ---------------------------------------------------------------------------
AuthorizedForTui_AnyBasic(a) == ENABLE_WEB_TUI /\ ~NotBasic(a)

\* the three tests of server.on("upgrade") for /tui/ws, none of which
\* destroyed the socket
AuthorizedForTui(a) ==
  /\ ENABLE_WEB_TUI
  /\ ~NotBasic(a)
  /\ ~(SETUP_PASSWORD = <<>> \/ ~timingSafeEqual(PasswordOf(a), SETUP_PASSWORD))

\* server.on("upgrade") for /tui/ws with Authorization header a
TuiUpgradeRequest(a, launched) ==
  IF AuthorizedForTui(a)
    THEN /\ Cardinality(Admitted) < MaxFairSessions
         /\ UpgradeWith(a, launched)
    ELSE \* socket.destroy(); return
         /\ phase = "running"
         /\ lastUpgrade' = [result |-> "destroyed", active |-> ActiveSessions # {},
                            open |-> \E s \in Sessions : wsState[s] = "open",
                            code |-> 0, reason |-> "", auth |-> a]
         /\ UNCHANGED <<tuiSession, wsState, ptyState, idleChecker, closeReason,
                        sessionStart, lastActivity, lastEvent, nextCheck, closeCalls, phase, now, gatewayVars,
                        dataVars>>

\* server.on("upgrade") on any path
NextGate ==
  \/ \E a \in AuthHeaders, launched \in BOOLEAN : TuiUpgradeRequest(a, launched)
  \/ \E p \in Paths, a \in ClientAuths : WsUpgrade(p, a)
  \/ \E s \in Sessions : PtyExit(s)
  \/ \E s \in Sessions : ClientClose(s)
  \/ \E s \in Sessions : WsCloseEvent(s)

SpecGate == InitAnyEnv /\ [][NextGate]_vars

\* ---------------------------------------------------------------------------
\* The dispatch of server.on("upgrade") on the request path, next to a
\* gateway that starts and exits
\* ---------------------------------------------------------------------------
TuiPath == <<"/", "tui", "ws">>
UpgradePaths == Paths \cup {TuiPath}

IsTuiPath_WhenEnabled(p) == p = TuiPath /\ ENABLE_WEB_TUI

\* if (pathname === "/tui/ws")
IsTuiPath(p) == p = TuiPath

\* server.on("upgrade") for a request with path p and Authorization header a
OnUpgrade(p, a, launched) ==
  IF IsTuiPath(p)
    THEN TuiUpgradeRequest(a, launched)
    ELSE WsUpgrade(p, a)

NextUpgrade ==
  \/ \E p \in UpgradePaths, a \in SetupAuths, launched \in BOOLEAN : OnUpgrade(p, a, launched)
  \/ \E c \in Callers : StartGateway(c, ServerJs)
  \/ \E a \in Procs : ReadyOk(a)
  \/ \E p \in Procs : ProcExit(p)
  \/ \E s \in Sessions : PtyExit(s)
  \/ \E s \in Sessions : ClientClose(s)
  \/ \E s \in Sessions : WsCloseEvent(s)

SpecUpgrade == InitAnyEnv /\ [][NextUpgrade]_vars

\* ---------------------------------------------------------------------------
\* checkGatewayHealth
\* ---------------------------------------------------------------------------

\* an event of the request made by http.get(`${GATEWAY_TARGET}/health`)
Response(status) == [kind |-> "response", status |-> status]
ErrorEvt == [kind |-> "error", status |-> 0]
TimeoutEvt == [kind |-> "timeout", status |-> 0]

\* the events one request can emit, in order: a response with some status,
\* possibly followed by a stalled or broken connection; a connection error;
\* a timeout, whose req.destroy() makes the request emit an error
HealthEvents == {<<Response(200)>>, <<Response(503)>>, <<Response(200), TimeoutEvt, ErrorEvt>>,
                 <<Response(404), ErrorEvt>>, <<ErrorEvt>>, <<TimeoutEvt, ErrorEvt>>}

\* only a process that is alive answers
CanEmit(es) == Head(es).kind = "response" => LiveProcs # {}

OnEvent_AnyResponse(e) == e.kind = "response"

\* the value each handler passes to resolve(): res.statusCode === 200 for a
\* response, false for "error" and for "timeout"
OnEvent(e) == e.kind = "response" /\ e.status = 200

\* the promise takes the value of the first resolve() call
checkGatewayHealth(es) == OnEvent(Head(es))

\* a call of checkGatewayHealth(), by the health route, whose request emits es
CheckGatewayHealth(es) ==
  /\ CanEmit(es)
  /\ lastHealth' = [events |-> es, result |-> checkGatewayHealth(es)]
  /\ UNCHANGED <<supVars, call, histVars, timeVars, tuiVars, routerVars, envVars,
                 rateLimitMap, lastAuth, passed, lastReport>>

GatewayRunning_WhenReady == gatewayProc # 0 /\ attempt[gatewayProc] = "resolved"

\* gatewayRunning: gatewayProc !== null
GatewayRunning == gatewayProc # 0

\* the health route answers, after its checkGatewayHealth() and
\* getOpenclawInfo() calls returned: res.json({ gatewayRunning, gatewayHealthy, ... })
HealthRespond ==
  /\ lastHealth # NoHealth
  /\ lastReport' = [sent |-> TRUE, gatewayRunning |-> GatewayRunning,
                    gatewayHealthy |-> lastHealth.result]
  /\ UNCHANGED <<supVars, call, histVars, timeVars, tuiVars, routerVars, envVars,
                 rateLimitMap, lastAuth, passed, lastHealth>>

\* the health route beside the supervisor and one terminal session
NextHealth ==
  \/ \E es \in HealthEvents : CheckGatewayHealth(es)
  \/ HealthRespond
  \/ \E c \in Callers : StartGateway(c, ServerJs)
  \/ \E a \in Procs : ReadyOk(a)
  \/ \E a \in Procs : ReadyTimeout(a)
  \/ \E p \in Procs : ProcExit(p)
  \/ \E launched \in BOOLEAN : TimedUpgrade(launched)
  \/ \E s \in Sessions : PtyExit(s)

SpecHealth == Init /\ [][NextHealth]_vars

\* ---------------------------------------------------------------------------
\* POST /setup/import
\* ---------------------------------------------------------------------------

\* the handler is entered by a request that passed requireSetupAuth. under:
\* STATE_DIR and WORKSPACE_DIR are under /data (400 otherwise);
\* await stopGateway()
ImportRequest(c, under) ==
  /\ FreeCaller(c)
  /\ IF under
       THEN StopBody(c, "importStop", ServerJs)
       ELSE UNCHANGED <<gatewayProc, gatewayStarting, procState, procSignalled, attempt,
                        spawnedBy, call, histVars>>
  /\ UNCHANGED <<configured, otherVars>>

\* readBodyBuffer() resolved: 400 for an empty body, else the archive is
\* written to a temporary file and tar.x() begins
BodyRead(c, empty) ==
  /\ call[c].pc = "readBody"
  /\ call' = [call EXCEPT ![c] = IF empty THEN IdleCall ELSE [@ EXCEPT !.pc = "extract"]]
  /\ UNCHANGED <<supVars, histVars, otherVars>>

\* tar.x() settled. ok: it resolved (500 otherwise); hasConfig: the archive
\* held a configuration file. if (isConfigured()) await restartGateway();
\* the answer "OK - imported ..." follows the restart, 500 its failure
ExtractDone(c, ok, hasConfig) ==
  /\ call[c].pc = "extract"
  /\ configured' = (configured \/ hasConfig)
  /\ IF ok /\ configured'
       THEN StopBody(c, "importRestart", ServerJs)
       ELSE /\ call' = [call EXCEPT ![c] = IdleCall]
            /\ UNCHANGED <<gatewayProc, gatewayStarting, procState, procSignalled, attempt,
                           spawnedBy, histVars>>
  /\ UNCHANGED otherVars

\* imports beside the requests of the catch-all handler
NextImport ==
  \/ \E c \in Callers, under \in BOOLEAN : ImportRequest(c, under)
  \/ \E c \in Callers, empty \in BOOLEAN : BodyRead(c, empty)
  \/ \E c \in Callers, ok \in BOOLEAN, hasConfig \in BOOLEAN : ExtractDone(c, ok, hasConfig)
  \/ \E c \in Callers : StopWake(c, ServerJs)
  \/ \E c \in Callers : EnsureGatewayRunning(c, ServerJs)
  \/ \E a \in Procs : ReadyOk(a)
  \/ \E a \in Procs : ReadyTimeout(a)
  \/ \E p \in Procs : ProcExit(p)
  \/ \E p \in Procs : ProcError(p)

SpecImport == Init /\ [][NextImport]_vars

\* ---------------------------------------------------------------------------
\* POST /setup/api/reset next to requests that call ensureGatewayRunning()
\* ---------------------------------------------------------------------------
\* fs.rmSync(configPath(), { force: true }): the configuration is absent
\* afterwards, unless rmSync threw (removed = FALSE; the answer is 500)
Removed(removed) == IF removed THEN FALSE ELSE configured

\* the handler is entered by a request that passed requireSetupAuth:
\* await stopGateway(), which returns at once when there is no handle
ResetRequest(c, removed) ==
  /\ FreeCaller(c)
  /\ StopBody(c, "reset", ServerJs)
  /\ configured' = IF gatewayProc = 0 THEN Removed(removed) ELSE configured
  /\ UNCHANGED otherVars

\* the sleep of its stopGateway() is over: gatewayProc = null, fs.rmSync(),
\* res.json({ success: true })
ResetWake(c, removed) ==
  /\ call[c].op = "reset"
  /\ StopSleepOver(c, ServerJs)
  /\ configured' = Removed(removed)
  /\ UNCHANGED otherVars

NextReset ==
  \/ \E c \in Callers, removed \in BOOLEAN : ResetRequest(c, removed)
  \/ \E c \in Callers, removed \in BOOLEAN : ResetWake(c, removed)
  \/ \E c \in Callers : EnsureGatewayRunning(c, ServerJs)
  \/ \E a \in Procs : ReadyOk(a)
  \/ \E a \in Procs : ReadyTimeout(a)
  \/ \E p \in Procs : ProcExit(p)
  \/ \E p \in Procs : ProcError(p)

SpecReset == Init /\ [][NextReset]_vars

TypeOK ==
  /\ gatewayProc \in 0..MaxProcs
  /\ gatewayStarting \in 0..MaxProcs
  /\ tuiSession \in 0..MaxSessions
\* ---------------------------------------------------------------------------
\* Claims about the supervisor
\* ---------------------------------------------------------------------------
EarlySpawns == {p \in Procs : spawnEarly[p]}

\* C1: the startGateway() calls issued while no process handle exists and
\* before the first of them completes spawn exactly one gateway process
\* between them: never more than one, and one as soon as such a call awaits
\* a start attempt.
C1_ConcurrentStartsSpawnOnce ==
  /\ Cardinality(EarlySpawns) <= 1
  /\ (\E c \in Callers : call[c].early /\ call[c].pc = "awaitStart")
       => Cardinality(EarlySpawns) = 1

\* C2: at most one gateway process spawned by the supervisor is alive.
C2_AtMostOneLiveGateway == Cardinality(LiveProcs) <= 1

\* C3: a startGateway() call made while an attempt was in flight has not
\* resolved before that attempt finished, and resolved with its outcome.
C3_JoinerSharesOutcome ==
  \A d \in done :
    d.joined # 0 =>
      /\ Settled(d.joined)
      /\ (d.res = "ok") <=> (attempt[d.joined] = "resolved")

\* C4: in a restart (stopGateway then startGateway) the process signalled by
\* the stop and the process spawned by the start are never alive together,
\* and the handle never refers to the old process once the new one is spawned.
C4_RestartNeverOverlaps ==
  \A q \in Procs :
    pred[q] # 0 =>
      /\ ~(Alive(pred[q]) /\ Alive(q))
      /\ gatewayProc # pred[q]
\* ---------------------------------------------------------------------------
\* Claims about the readiness wait
\* ---------------------------------------------------------------------------
Elapsed == settledAt - wait.startTime
\* the time, since the wait began, at which the gateway became healthy
HealthyAt == now - healthyFor - wait.startTime
HealthyBeforeTimeout == healthyFor = HealthyCap \/ HealthyAt < GATEWAY_READY_TIMEOUT

\* C5 (as claimed): when the health endpoint never returns 200, the attempt
\* fails exactly GATEWAY_READY_TIMEOUT after the wait began, its process has
\* been sent SIGTERM (or is already gone) and the handle is null.
C5_FailsExactlyAtTimeout ==
  \A a \in Procs :
    (attempt[a] = "rejected" /\ ~everHealthy) =>
      /\ Elapsed = GATEWAY_READY_TIMEOUT
      /\ procSignalled[a] \/ ~Alive(a)
      /\ gatewayProc = 0

\* C5 (amended): when the health endpoint never returns 200, the attempt
\* fails no earlier than GATEWAY_READY_TIMEOUT after the wait began and less
\* than one poll interval plus one health-check timeout after that; in that
\* turn the process the handle refers to, if any, is sent SIGTERM and the
\* handle becomes null.
C5_FailsWithinTimeoutWindow ==
  [][\A a \in Procs :
       (attempt[a] = "waiting" /\ attempt'[a] = "rejected" /\ ~everHealthy) =>
         /\ now - wait.startTime >= GATEWAY_READY_TIMEOUT
         /\ now - wait.startTime < GATEWAY_READY_TIMEOUT + GATEWAY_POLL_INTERVAL + HEALTH_TIMEOUT
         /\ gatewayProc # 0 => procSignalled'[gatewayProc]
         /\ gatewayProc' = 0]_vars

\* C5 witness: a start that failed later than the timeout, its process signalled
C5_Witness ==
  \E a \in Procs :
    /\ attempt[a] = "rejected" /\ ~everHealthy
    /\ Elapsed > GATEWAY_READY_TIMEOUT
    /\ procSignalled[a] /\ gatewayProc = 0

\* C6 (as claimed): if the health endpoint returns 200 from a time T before
\* the readiness timeout, the start succeeds no later than T plus one poll
\* interval.
C6_ReadyWithinOnePoll ==
  \A a \in Procs :
    (healthy /\ HealthyBeforeTimeout) =>
      /\ attempt[a] # "rejected"
      /\ attempt[a] \in {"waiting", "resolved"} => healthyFor <= GATEWAY_POLL_INTERVAL

\* C6 (amended): if the health endpoint returns 200 from time T on, the
\* start succeeds no later than T plus one poll interval plus two
\* health-check timeouts, and it can fail only when T is not earlier than
\* GATEWAY_READY_TIMEOUT minus one poll interval and one health-check timeout.
C6_ReadyWithinPollAndChecks ==
  \A a \in Procs :
    healthy =>
      /\ attempt[a] \in {"waiting", "resolved"} =>
           healthyFor <= GATEWAY_POLL_INTERVAL + 2 * HEALTH_TIMEOUT
      /\ attempt[a] = "rejected" =>
           HealthyAt >= GATEWAY_READY_TIMEOUT - GATEWAY_POLL_INTERVAL - HEALTH_TIMEOUT

\* C6 witness: a start that succeeded later than T plus one poll interval
C6_Witness ==
  \E a \in Procs :
    /\ attempt[a] = "resolved" /\ healthy
    /\ healthyFor > GATEWAY_POLL_INTERVAL
\* ---------------------------------------------------------------------------
\* Claims about the session bridge
\* ---------------------------------------------------------------------------

\* C7: at most one terminal session is live: never more than one alive
\* pseudo-terminal process bridged to an open WebSocket.
C7_AtMostOneLiveSession == Cardinality(ActiveSessions) <= 1

\* C8: a terminal upgrade that arrived while a session was active was closed
\* without a pseudo-terminal being spawned for it, and an upgrade that
\* arrived when the earlier sessions had ended was admitted (it got a
\* pseudo-terminal unless pty.spawn failed).
C8_SecondUpgradeRejected ==
  /\ lastUpgrade.active => lastUpgrade.result = "rejected"
  /\ (lastUpgrade.result # "none" /\ ~lastUpgrade.open)
       => lastUpgrade.result \in {"admitted", "spawnfail"}

\* session s has begun to end: its socket is closing or closed, its
\* pseudo-terminal signalled or gone, or the process is shutting down
Ending(s) ==
  /\ wsState[s] # "none"
  /\ \/ wsState[s] # "open"
     \/ ptyState[s] # "alive"
     \/ phase # "running"
\* the end state of the cleanup of session s
Cleaned(s) == ~idleChecker[s] /\ ptyState[s] = "exited" /\ tuiSession # s

\* C9: from every exit path of a session the bridge eventually reaches the
\* state where its periodic check is stopped, its pseudo-terminal process
\* terminated and the slot does not hold it; and whatever cleanup handler of
\* that session runs again, that end state stays.
C9_CleanupReached ==
  /\ \A s \in Sessions : Ending(s) ~> Cleaned(s)
  /\ [][\A s \in Sessions : Cleaned(s) => Cleaned(s)']_vars

\* C9 witness: a session cleaned up by both its pty exit and its socket's close
C9_Witness ==
  \E s \in Sessions :
    /\ Cleaned(s) /\ wsState[s] = "closed" /\ closeReason[s] = "exit"
    /\ phase = "running"

\* s is open and its periodic check runs now, after more than the idle
\* threshold without activity
IdleAtCheck(s) ==
  /\ idleChecker[s] /\ wsState[s] = "open"
  /\ nextCheck'[s] # nextCheck[s]
  /\ now - lastActivity[s] > TUI_IDLE_TIMEOUT_MS

\* C10 (as claimed): a session without activity for longer than the idle
\* threshold is closed by the next periodic check with the inactivity reason.
C10_IdleClosedWithIdleReason ==
  [][\A s \in Sessions :
       IdleAtCheck(s) => wsState'[s] = "closing" /\ closeReason'[s] = "idle"]_vars

\* C10 (amended): an open session without activity for longer than the idle
\* threshold is closed by its next periodic check, so it never stays open
\* beyond the threshold plus one check interval; the reason is inactivity
\* when its age does not exceed the maximum session duration, and the
\* maximum duration otherwise.
C10_IdleClosedByNextCheck ==
  /\ [](\A s \in Sessions :
          (idleChecker[s] /\ wsState[s] = "open")
            => now - lastActivity[s] <= TUI_IDLE_TIMEOUT_MS + CHECK_INTERVAL)
  /\ [][\A s \in Sessions :
          IdleAtCheck(s) =>
            /\ wsState'[s] = "closing"
            /\ closeReason'[s] = IF now - sessionStart[s] > TUI_MAX_SESSION_MS
                                   THEN "max" ELSE "idle"]_vars

\* C10 witness: a session closed for inactivity below the maximum duration,
\* after it had been active
C10_Witness ==
  \E s \in Sessions :
    /\ closeReason[s] = "idle"
    /\ lastActivity[s] > sessionStart[s]
    /\ now - sessionStart[s] < TUI_MAX_SESSION_MS
\* s is open and its periodic check runs now, its age beyond the maximum
MaxAgeAtCheck(s) ==
  /\ idleChecker[s] /\ wsState[s] = "open"
  /\ nextCheck'[s] # nextCheck[s]
  /\ now - sessionStart[s] > TUI_MAX_SESSION_MS

\* C11: an open session whose age exceeds the maximum session duration is
\* closed by its next periodic check with the maximum-duration reason,
\* however recent its last activity, so no session stays open beyond the
\* maximum plus one check interval.
C11_MaxDurationClosedByNextCheck ==
  /\ [](\A s \in Sessions :
          (idleChecker[s] /\ wsState[s] = "open")
            => now - sessionStart[s] <= TUI_MAX_SESSION_MS + CHECK_INTERVAL)
  /\ [][\A s \in Sessions :
          MaxAgeAtCheck(s) => wsState'[s] = "closing" /\ closeReason'[s] = "max"]_vars

\* C11 witness: a session closed for its age right after some activity
C11_Witness ==
  \E s \in Sessions :
    /\ closeReason[s] = "max" /\ wsState[s] = "closing"
    /\ lastActivity[s] > sessionStart[s] + TUI_MAX_SESSION_MS
\* the payloads of the input messages among the messages q: the data of the
\* JSON input messages and the text of the messages that are not JSON
RECURSIVE InputPayloads(_)
InputPayloads(q) ==
  IF q = <<>> THEN <<>>
  ELSE LET m == Head(q) IN
       (IF ~m.json \/ m.type = "input" THEN <<Bytes(m.data)>> ELSE <<>>)
         \o InputPayloads(Tail(q))

\* C12: within a session the sequence of data written to the pseudo-terminal
\* equals the sequence of payloads of the received input messages, in
\* receipt order.
C12_WritesEqualInputs ==
  \A s \in Sessions : ptyWritten[s] = InputPayloads(received[s])

\* the chunks among q that the pty produced while the WebSocket was open
RECURSIVE OpenChunks(_)
OpenChunks(q) ==
  IF q = <<>> THEN <<>>
  ELSE (IF Head(q).open THEN <<Head(q).data>> ELSE <<>>) \o OpenChunks(Tail(q))

\* C13: within a session the output messages sent on the WebSocket are
\* exactly the chunks the pseudo-terminal produced while the WebSocket was
\* open, one message per chunk, in the order of generation.
C13_OutputInOrder ==
  \A s \in Sessions : wsSent[s] = OpenChunks(chunks[s])

\* C13 witness: two different chunks sent in the order of their generation
C13_Witness ==
  \E s \in Sessions :
    /\ Len(wsSent[s]) = 2 /\ wsSent[s][1] # wsSent[s][2]
    /\ chunks[s][1].data = wsSent[s][1]
\* ---------------------------------------------------------------------------
\* Claims about the router
\* ---------------------------------------------------------------------------

\* C14: every request forwarded to the gateway carries the Authorization
\* header 'Bearer <gateway token>' whatever header the client sent: two
\* forwarded requests that differ only in the client's header carry the same
\* one; so does a forwarded WebSocket upgrade.
C14_ForwardedAuthIsBearer ==
  /\ \A r \in proxied : r.fwdAuth = Bearer(OPENCLAW_GATEWAY_TOKEN)
  /\ \A r1, r2 \in proxied : r1.path = r2.path => r1.fwdAuth = r2.fwdAuth
  /\ lastWs.result = "forwarded" => lastWs.auth = Bearer(OPENCLAW_GATEWAY_TOKEN)

\* C14 witness: two requests in flight that differ only in the client's header
C14_Witness ==
  \E r1, r2 \in proxied :
    /\ r1.path = r2.path /\ r1.cfg = r2.cfg /\ r1.handle = r2.handle
    /\ r1.starting = r2.starting
    /\ r1.auth = <<>> /\ r2.auth # <<>>

\* C15: a request that reached the catch-all handler while the
\* configuration was absent is answered with a redirect to /setup and is
\* never handed to the proxy.
C15_UnconfiguredRedirectsToSetup ==
  /\ \A r \in proxied : r.cfg
  /\ \A a \in answered : ~a.cfg => a.response = "redirect /setup"

\* C16: a request that arrived with the configuration present and no
\* process handle does not wait for the start it triggers: it is answered
\* with the redirect to /loading, and is not held until the attempt settles.
C16_LoadingWithoutWaiting ==
  /\ \A c \in Callers : (req[c].cfg /\ ~req[c].handle) => call[c].pc # "awaitStart"
  /\ \A a \in answered : (a.cfg /\ ~a.handle) => a.response = "redirect /loading"
  /\ \A r \in proxied : ~(r.cfg /\ ~r.handle)

\* the gateway was not healthy when r arrived: no process handle, or a
\* process that had not answered a health check yet
NotHealthyOnArrival(r) == r.cfg /\ (~r.handle \/ r.starting)

\* C17: a request that arrived while the gateway was not healthy is
\* answered with the redirect to /loading: it is not handed to the proxy and
\* gets no gateway-unavailable error.
C17_UnhealthyGetsLoading ==
  /\ \A r \in proxied : ~NotHealthyOnArrival(r)
  /\ \A a \in answered : NotHealthyOnArrival(a) => a.response = "redirect /loading"

\* C18: a proxy error answers that one request with 502, leaves the other
\* proxied requests alone and changes neither the process handle nor the
\* start-future slot.
C18_ProxyErrorLeavesSupervisor ==
  [][(proxied' # proxied /\ \E a \in answered' : a.response = "502") =>
       /\ gatewayProc' = gatewayProc
       /\ gatewayStarting' = gatewayStarting
       /\ Cardinality(answered') = 1
       /\ \E r \in proxied : proxied' = proxied \ {r}]_vars

\* C18 witness: a request answered 502 while the handle exists, a start is
\* in flight and another request is still proxied
C18_Witness ==
  /\ \E a \in answered : a.response = "502"
  /\ gatewayProc # 0 /\ gatewayStarting # 0
  /\ proxied # {}

\* C19: a WebSocket upgrade outside the terminal path is forwarded only if
\* the process handle exists then; otherwise the socket is destroyed; and
\* the upgrade triggers no gateway start.
C19_WsForwardedOnlyWithHandle ==
  /\ [](lastWs.result = "forwarded" => lastWs.handle)
  /\ []((lastWs.result # "none" /\ ~lastWs.handle) => lastWs.result = "destroyed")
  /\ [][lastWs' # lastWs => UNCHANGED <<supVars, call>>]_vars

\* C19 witness: an upgrade destroyed, the configuration present, and no
\* start in flight after it
C19_Witness ==
  /\ lastWs.result = "destroyed" /\ lastWs.cfg /\ ~lastWs.handle
  /\ gatewayStarting = 0 /\ gatewayProc = 0

\* C20: a terminal connection rejected because another session's WebSocket
\* is open is closed with the policy-violation close code (1008) and the
\* reason that another session is already active.
C20_RejectedWithPolicyViolation ==
  lastUpgrade.result = "rejected" =>
    /\ lastUpgrade.code = 1008
    /\ lastUpgrade.reason = "Another session is already active"

\* C21: when pty.spawn fails for a new terminal connection, the WebSocket is
\* closed with the internal-error code 1011, no session is registered, no
\* timer is started, and the slot and the existing sessions are unchanged.
C21_SpawnFailureRegistersNothing ==
  /\ [](lastUpgrade.result = "spawnfail" => lastUpgrade.code = 1011)
  /\ [][(lastUpgrade' # lastUpgrade /\ lastUpgrade'.result = "spawnfail") =>
          UNCHANGED <<tuiSession, wsState, ptyState, idleChecker>>]_vars

\* C21 witness: a spawn failure while the slot holds a closing session
C21_Witness ==
  /\ lastUpgrade.result = "spawnfail"
  /\ tuiSession # 0 /\ wsState[tuiSession] = "closing" /\ idleChecker[tuiSession]
\* C22 (as stated): in each terminal session the exit message is sent at most
\* once, every close of the session's socket by the server comes right after
\* an exit message sent in the same turn, and no output message follows an
\* exit message.
C22_EveryServerCloseAfterExit ==
  /\ [](\A s \in Sessions : exitSent[s] <= 1)
  /\ [][\A s \in Sessions :
         /\ (closeReason[s] = "none" /\ closeReason'[s] # "none") =>
               exitSent'[s] = exitSent[s] + 1
         /\ exitSent[s] > 0 => wsSent'[s] = wsSent[s]]_vars

\* C22 (amended): the exit message is sent at most once, only by the exit of
\* the pseudo-terminal while the socket is open, and the server closes the
\* socket in the same turn; no output message follows it. A socket closed by
\* the periodic check carries no exit message.
C22_ExitOnceThenClose ==
  /\ [](\A s \in Sessions :
          /\ exitSent[s] <= 1
          /\ exitSent[s] = 1 <=> closeReason[s] = "exit")
  /\ [][\A s \in Sessions :
         /\ exitSent'[s] # exitSent[s] =>
               /\ wsState[s] = "open" /\ wsState'[s] = "closing"
               /\ ptyState'[s] = "exited"
         /\ exitSent[s] > 0 => wsSent'[s] = wsSent[s]]_vars

\* an exit message was sent after two output messages, and the
\* pseudo-terminal's later output was not sent
C22_Witness ==
  \E s \in Sessions :
    /\ exitSent[s] = 1
    /\ Len(wsSent[s]) = 2
    /\ wsState[s] = "closing"
\* C23: when a start attempt fails, the process handle and the start-future
\* slot are both null afterwards; no call ever awaits a failed attempt; and a
\* startGateway() call made while they are still null after a failure does not
\* return at once but spawns a process that was not spawned before and awaits
\* its new attempt.
C23_RetryAfterFailureSpawns ==
  /\ [](\A c \in Callers :
          call[c].pc = "awaitStart" => attempt[call[c].awaiting] # "rejected")
  /\ [][\A a \in Procs :
         (attempt[a] # "rejected" /\ attempt'[a] = "rejected") =>
           gatewayProc' = 0 /\ gatewayStarting' = 0]_vars
  /\ [][((\E a \in Procs : attempt[a] = "rejected")
          /\ gatewayProc = 0 /\ gatewayStarting = 0) =>
           /\ ~(call' = call /\ done' # done)
           /\ \A c \in Callers :
                (Idle(c) /\ call'[c].op = "start") =>
                  /\ call'[c].pc = "awaitStart"
                  /\ procState[call'[c].awaiting] = "none"
                  /\ procState'[call'[c].awaiting] # "none"
                  /\ attempt'[call'[c].awaiting] = "waiting"
                  /\ gatewayStarting' = call'[c].awaiting]_vars

\* after an attempt that failed on a spawn error, a startGateway() call awaits
\* the attempt of a newly spawned process
C23_Witness ==
  \E a, b \in Procs, c \in Callers :
    /\ attempt[a] = "rejected" /\ procState[a] = "failed"
    /\ call[c].op = "start" /\ call[c].pc = "awaitStart" /\ call[c].awaiting = b
    /\ b # a /\ attempt[b] = "waiting" /\ spawnedBy[b] = c
\* C24: a start attempt resolves successfully only if, at that moment, the
\* process handle refers to the process this attempt spawned and that
\* process is alive (so an attempt whose process failed to spawn or exited
\* during the readiness wait does not succeed).
C24_SuccessMeansOwnLiveProcess ==
  [][\A a \in Procs :
       (attempt[a] # "resolved" /\ attempt'[a] = "resolved") =>
         gatewayProc' = a /\ procState'[a] = "alive"]_vars
\* C25: an ensureGatewayRunning() call goes on to startGateway() only when the
\* configuration exists and the process handle is null, and otherwise changes
\* nothing; when it goes on it does what startGateway() does with a null
\* handle: it awaits the attempt in flight if the slot is occupied, without
\* spawning, and otherwise spawns a new process and installs handle and slot.
C25_EnsureStartsOnlyWhenNeeded ==
  [][\A c \in Callers :
       (Idle(c) /\ call'[c].op = "ensure") =>
         /\ configured /\ gatewayProc = 0
         /\ call'[c].pc = "awaitStart"
         /\ IF gatewayStarting # 0
              THEN /\ call'[c].awaiting = gatewayStarting
                   /\ UNCHANGED <<gatewayProc, gatewayStarting, procState, attempt>>
              ELSE /\ procState[call'[c].awaiting] = "none"
                   /\ procState'[call'[c].awaiting] # "none"
                   /\ gatewayProc' = call'[c].awaiting
                   /\ gatewayStarting' = call'[c].awaiting]_vars

\* one ensureGatewayRunning() call awaits the attempt it spawned and another
\* one, made after the handle was cleared, has joined that attempt
C25_Witness ==
  \E c, d \in Callers :
    /\ c # d
    /\ call[c].op = "ensure" /\ call[c].pc = "awaitStart"
    /\ spawnedBy[call[c].awaiting] = c
    /\ call[d].op = "ensure" /\ call[d].awaiting = call[c].awaiting
\* C26: a signal is sent only to the process of the handle, so none is sent
\* while the handle is null; a stopGateway() call that finds a handle signals
\* that process and no other, leaves handle and processes as they are and
\* sleeps; when the sleep is over it resolves with the handle null, sending
\* no further signal and whatever the state of the process.
C26_StopSignalsThenClearsHandle ==
  /\ [][\A p \in Procs : (procSignalled'[p] /\ ~procSignalled[p]) => gatewayProc = p]_vars
  /\ [][\A c \in Callers :
         /\ (Idle(c) /\ call'[c].pc = "stopSleep") =>
               /\ gatewayProc # 0
               /\ call'[c].stopSig = gatewayProc
               /\ procSignalled'[gatewayProc]
               /\ \A q \in Procs \ {gatewayProc} : procSignalled'[q] = procSignalled[q]
               /\ UNCHANGED <<gatewayProc, gatewayStarting, procState, attempt>>
         /\ (call[c].pc = "stopSleep" /\ call[c].op = "stop" /\ call'[c] # call[c]) =>
               /\ call'[c] = IdleCall
               /\ gatewayProc' = 0
               /\ UNCHANGED <<gatewayStarting, procState, procSignalled, attempt>>]_vars

\* stopGateway() has resolved: the handle is null and the only process ever
\* spawned, which had become ready, has been signalled and is still alive
C26_Witness ==
  \E p \in Procs :
    /\ Spawned = {p} /\ Alive(p) /\ procSignalled[p] /\ attempt[p] = "resolved"
    /\ gatewayProc = 0
    /\ \A c \in Callers : Idle(c)
\* C27: for each client identity at most RATE_LIMIT_MAX requests are let
\* through under one reset time of its record; a request changes the record
\* of its own identity only; it restarts the count when it arrives after the
\* reset time and adds one to it in every case, also when it is rejected; and
\* it is answered 429 exactly when the count then exceeds RATE_LIMIT_MAX.
C27_RateLimitPerIdentity ==
  /\ [](\A i \in Identities : passed[i] <= RATE_LIMIT_MAX)
  /\ [][\A i \in Identities :
         rateLimitMap'[i] # rateLimitMap[i] =>
           LET old == rateLimitMap[i]
               restarted == old = NoRecord \/ now > old.resetAt
           IN /\ lastAuth'.ip = i
              /\ \A j \in Identities \ {i} :
                    rateLimitMap'[j] = rateLimitMap[j] /\ passed'[j] = passed[j]
              /\ rateLimitMap'[i].count = IF restarted THEN 1 ELSE old.count + 1
              /\ rateLimitMap'[i].resetAt =
                    IF restarted THEN now + RATE_LIMIT_WINDOW ELSE old.resetAt
              /\ lastAuth'.status = "429" <=> rateLimitMap'[i].count > RATE_LIMIT_MAX]_vars

\* one identity has just been answered 429 for the second time in its
\* window, after RATE_LIMIT_MAX requests were let through, while the other
\* identity is in a later window of its own with one request counted
C27_Witness ==
  \E i, j \in Identities :
    /\ i # j
    /\ lastAuth = [ip |-> i, status |-> "429"]
    /\ rateLimitMap[i].count = RATE_LIMIT_MAX + 2 /\ passed[i] = RATE_LIMIT_MAX
    /\ rateLimitMap[j].count = 1 /\ rateLimitMap[j].resetAt > rateLimitMap[i].resetAt
\* the upgrade u came with Basic credentials "u:pw" or ":pw" to a deployment
\* whose web terminal is enabled and whose setup password is "pw"
Entitled(u) ==
  /\ ENABLE_WEB_TUI
  /\ SETUP_PASSWORD = Chars("pw")
  /\ u.auth \in {<<"Basic", "dTpwdw==">>, <<"Basic", "OnB3">>}

\* C28: a pseudo-terminal is spawned or the session slot filled only by a
\* terminal upgrade admitted while the web terminal is enabled and the setup
\* password is set, whose Basic credentials carry exactly that password; a
\* terminal upgrade without them has its socket destroyed and changes neither
\* the slot nor any session; an upgrade on another path does not either.
C28_SessionOnlyWithPassword ==
  /\ [][((tuiSession' # tuiSession /\ tuiSession' # 0)
          \/ \E s \in Sessions : ptyState[s] = "none" /\ ptyState'[s] # "none") =>
           /\ lastUpgrade'.result = "admitted"
           /\ Entitled(lastUpgrade')]_vars
  /\ [][(lastUpgrade' # lastUpgrade /\ ~Entitled(lastUpgrade')) =>
           /\ lastUpgrade'.result = "destroyed"
           /\ UNCHANGED <<tuiSession, wsState, ptyState, idleChecker>>]_vars
  /\ [][lastWs' # lastWs => UNCHANGED <<tuiSession, wsState, ptyState, idleChecker>>]_vars

\* while a session admitted earlier is open, a terminal upgrade whose
\* credentials carry a longer password has had its socket destroyed
C28_Witness ==
  /\ lastUpgrade.result = "destroyed"
  /\ lastUpgrade.auth = <<"Basic", "dTpwOnc=">>
  /\ tuiSession # 0 /\ wsState[tuiSession] = "open" /\ ptyState[tuiSession] = "alive"
\* C29: every checkGatewayHealth() call yields a boolean, true exactly when
\* the first event of its request is a response with status 200, and it
\* changes neither the process handle nor the start-future slot nor the
\* session slot.
C29_HealthCheckIsPureBoolean ==
  /\ [](lastHealth # NoHealth =>
          /\ lastHealth.result \in BOOLEAN
          /\ lastHealth.result <=> lastHealth.events[1] = Response(200))
  /\ [][lastHealth' # lastHealth =>
           UNCHANGED <<gatewayProc, gatewayStarting, tuiSession>>]_vars

\* a check whose request got an answer other than 200 and then broke has
\* returned false while a start attempt is in flight and a session is in the slot
C29_Witness ==
  /\ lastHealth = [events |-> <<Response(404), ErrorEvt>>, result |-> FALSE]
  /\ gatewayProc # 0 /\ gatewayStarting # 0 /\ tuiSession # 0
\* C30: an import signals the gateway of the handle before it extracts and a
\* restart follows the extraction; while an import is extracting the archive
\* no gateway process spawned by the supervisor is alive.
C30_NoGatewayDuringExtraction ==
  \A c \in Callers : call[c].pc = "extract" => LiveProcs = {}
\* C31: the spawn installs the process handle in the same turn, while the
\* attempt has not settled; and every answer of the health route reports
\* gatewayRunning true exactly when the handle is non-null at that moment.
C31_RunningIsHandleNonNull ==
  /\ [][\A p \in Procs :
         (procState[p] = "none" /\ procState'[p] # "none") =>
           gatewayProc' = p /\ attempt'[p] = "waiting"]_vars
  /\ [][lastReport' # lastReport =>
           /\ lastReport'.gatewayRunning <=> gatewayProc # 0
           /\ gatewayProc' = gatewayProc]_vars

\* the health route has reported gatewayRunning true with gatewayHealthy
\* false while the attempt of the handle's process is still waiting
C31_Witness ==
  /\ lastReport = [sent |-> TRUE, gatewayRunning |-> TRUE, gatewayHealthy |-> FALSE]
  /\ gatewayProc # 0 /\ attempt[gatewayProc] = "waiting" /\ Alive(gatewayProc)
\* C32: the start-future slot, when non-null, holds an attempt that has not
\* settled, and while the attempt it holds remains unsettled no step clears
\* the slot or puts another attempt in it.
C32_SlotHeldWhileInFlight ==
  /\ [](gatewayStarting # 0 => ~Settled(gatewayStarting))
  /\ [][(gatewayStarting # 0 /\ attempt'[gatewayStarting] \notin {"resolved", "rejected"}) =>
           gatewayStarting' = gatewayStarting]_vars
\* C33: every startGateway() call that awaits a start attempt is resumed in
\* the end, with the attempt resolved or rejected.
C33_StartEventuallyResolves ==
  \A c \in Callers : (call[c].pc = "awaitStart") ~> (call[c].pc = "idle")

\* a start call has returned with an error after the timeout, its gateway
\* never healthy and its process gone before the timeout
C33_Witness ==
  \E a \in Procs :
    /\ attempt[a] = "rejected" /\ ~everHealthy /\ procState[a] = "exited"
    /\ ~procSignalled[a]
    /\ Elapsed >= GATEWAY_READY_TIMEOUT
    /\ \A c \in Callers : Idle(c)

\* C34: every WebSocket message and every output chunk of the pty sets the
\* session's last-activity time to the time of that event, and the periodic
\* check closes a session for inactivity only when more than the idle
\* threshold has passed since its latest event, so a session whose events
\* are never further apart than the threshold is never closed for
\* inactivity.
C34_ActivityRefreshPreventsIdleClose ==
  /\ [](\A s \in Sessions : lastActivity[s] = lastEvent[s])
  /\ [][\A s \in Sessions :
          (closeReason[s] = "none" /\ closeReason'[s] = "idle")
            => now - lastEvent[s] > TUI_IDLE_TIMEOUT_MS]_vars

\* C34 witness: a session still open, and never closed by the server, after
\* more than the idle threshold and at least one check beyond it, its latest
\* event within the threshold
C34_Witness ==
  \E s \in Sessions :
    /\ wsState[s] = "open" /\ closeReason[s] = "none"
    /\ now - sessionStart[s] > TUI_IDLE_TIMEOUT_MS + CHECK_INTERVAL
    /\ lastEvent[s] > sessionStart[s]
    /\ now - lastEvent[s] <= TUI_IDLE_TIMEOUT_MS

\* C35: a message that is not JSON is written unchanged to the pty and the
\* socket stays open; a resize message writes nothing to the pty.
C35_RawWrittenResizeWritesNothing ==
  [][\A s \in Sessions :
       received'[s] # received[s] =>
         LET m == received'[s][Len(received'[s])] IN
         /\ ~m.json => /\ ptyWritten'[s] = Append(ptyWritten[s], Text(m))
                        /\ wsState'[s] = "open"
         /\ (m.json /\ m.type = "resize") => ptyWritten'[s] = ptyWritten[s]]_vars

\* the session state that only handleTuiConnection and its handlers change
sessionVars == <<tuiSession, wsState, ptyState, idleChecker, closeReason>>

\* C36: an upgrade on the terminal path is never handed to the gateway
\* branch, whatever its credentials and whether or not the web terminal is
\* enabled; an upgrade handled by the gateway branch changes no terminal
\* session, and a step that admits a session or spawns a pty is not one of
\* the gateway branch.
C36_UpgradeRoutedByPath ==
  /\ [](lastWs.path # TuiPath)
  /\ [][lastUpgrade' # lastUpgrade => lastWs' = lastWs]_vars
  /\ [][lastWs' # lastWs => (lastWs'.path \in Paths /\ UNCHANGED <<sessionVars, lastUpgrade>>)]_vars
  /\ [][(\E s \in Sessions : ptyState[s] = "none" /\ ptyState'[s] # "none")
          => (lastWs' = lastWs /\ lastUpgrade'.result = "admitted")]_vars

\* C36 witness: while the gateway has a handle and the configuration is there,
\* a terminal upgrade was refused (the web terminal disabled, or the
\* credentials wrong) and nothing was forwarded, and an upgrade on another
\* path was forwarded with no terminal session created
C36_Witness ==
  /\ configured /\ gatewayProc # 0
  /\ lastUpgrade.result = "destroyed"
  /\ lastWs.result = "forwarded" /\ lastWs.path \in Paths
  /\ \A s \in Sessions : ptyState[s] = "none"

\* C37: whenever a session is live (its WebSocket open and its pty alive),
\* the session slot holds that session.
C37_LiveSessionHoldsSlot ==
  \A s \in Sessions :
    (wsState[s] = "open" /\ ptyState[s] = "alive") => tuiSession = s

\* the periodic check of session s runs in this step
CheckStep(s) == idleChecker[s] /\ nextCheck'[s] # nextCheck[s]

\* C38: a periodic check that finds both the maximum session duration and
\* the idle threshold exceeded closes the session with the maximum-duration
\* reason; a check calls ws.close() at most once; a check that finds the age
\* and the idle time within their limits closes nothing, and the server
\* closes a session for its age or its inactivity only in a check that found
\* that limit exceeded.
C38_MaxReasonFirstOneClose ==
  /\ [](\A s \in Sessions : Len(closeCalls[s]) <= 1)
  /\ [][\A s \in Sessions :
          (/\ CheckStep(s) /\ wsState[s] = "open"
           /\ now - sessionStart[s] > TUI_MAX_SESSION_MS
           /\ now - lastActivity[s] > TUI_IDLE_TIMEOUT_MS)
            => (wsState'[s] = "closing" /\ closeReason'[s] = "max"
                  /\ closeCalls'[s] = <<"max">>)]_vars
  /\ [][\A s \in Sessions :
          (/\ CheckStep(s)
           /\ now - sessionStart[s] <= TUI_MAX_SESSION_MS
           /\ now - lastActivity[s] <= TUI_IDLE_TIMEOUT_MS)
            => (wsState'[s] = wsState[s] /\ closeReason'[s] = closeReason[s]
                  /\ closeCalls'[s] = <<>>)]_vars
  /\ [][\A s \in Sessions :
          (closeReason'[s] # closeReason[s] /\ closeReason'[s] \in {"max", "idle"})
            => /\ CheckStep(s)
               /\ closeReason'[s] = "max" => now - sessionStart[s] > TUI_MAX_SESSION_MS
               /\ closeReason'[s] = "idle" => now - lastActivity[s] > TUI_IDLE_TIMEOUT_MS]_vars

\* C38 witness: a session just closed for its age by a check that also found
\* it idle for longer than the idle threshold
C38_Witness ==
  \E s \in Sessions :
    /\ wsState[s] = "closing" /\ closeReason[s] = "max"
    /\ closeCalls[s] = <<"max">>
    /\ nextCheck[s] = now + CHECK_INTERVAL
    /\ now - lastActivity[s] > TUI_IDLE_TIMEOUT_MS
    /\ lastActivity[s] > sessionStart[s]

\* C39: when a reset request has removed the configuration and answered,
\* the process handle is null and no process spawned by the supervisor is
\* alive.
C39_ResetLeavesNoGateway ==
  [][(configured /\ ~configured') =>
       (gatewayProc' = 0 /\ \A p \in Procs : procState'[p] # "alive")]_vars

====
